---- MODULE Spec2Model ----
(***************************************************************************)
(* A model of github.com/edoger/zkits-runner: the Runner (runner.go), the  *)
(* duplex waiter, the closeable waiter, the empty waiter                   *)
(* (empty_waiter.go), the Broadcaster (broadcaster.go) and the WaitQueue   *)
(* (wait_queue.go), with SafeCall, MustCall (caller.go) and the Errors     *)
(* collection as operators, which small specifications of their own apply  *)
(* to bounded sets of arguments.                                           *)
(*                                                                         *)
(* Every goroutine that calls into an object is a process with a program   *)
(* counter.  A sync.Mutex is the id of the process that holds it (0 when   *)
(* free), a chan struct{} that is only ever closed is a boolean (closed or *)
(* not), a sync.Once is its done flag.                                     *)
(***************************************************************************)
EXTENDS Integers, Sequences, FiniteSets, TLC

\* ------------------------------------------------------------------ bounds
\* Number of goroutines calling into one Runner.
NumCallers == 2
\* Number of Run calls made on one Runner (each call brings a fresh Task).
MaxTasks == 3

\* Number of goroutines that share one stand-alone duplex waiter.
NumWaiterUsers == 3
\* Number of goroutines calling into one Broadcaster.
NumBroadcastCallers == 2
\* Number of duplex waiters one Broadcaster creates.
MaxWaiters == 3
\* Number of goroutines that share one closeable waiter.
NumCloseableUsers == 4
\* Number of goroutines calling into one WaitQueue.
NumQueueCallers == 2
\* Number of goroutines that share the empty waiter.
NumEmptyUsers == 3
\* Number of goroutines that call SafeCall and MustCall.
NumCallUsers == 2
\* Number of Add calls made on the Errors collection under test.
MaxAdds == 3

RProcs == 1..NumCallers
TaskIds == 1..MaxTasks
WProcs == 1..NumWaiterUsers
CProcs == 1..NumCloseableUsers
QProcs == 1..NumQueueCallers
EProcs == 1..NumEmptyUsers
KProcs == 1..NumCallUsers
BProcs == 1..NumBroadcastCallers
\* Waiter 0 is the stand-alone duplex waiter; 1..MaxWaiters are the waiters a
\* Broadcaster creates, numbered in creation order.
Standalone == 0
Waiters == 0..MaxWaiters

\* ------------------------------------------------------------------- state
VARIABLES
    \* runner struct (runner.go:60-65)
    r_mutex,      \* r.mutex: 0 when free, else the goroutine holding it
    r_tasks,      \* r.tasks: sequence of task ids
    r_chanExit,   \* r.chanExit: TRUE once closed
    r_onceExit,   \* r.onceExit: TRUE once its function has run
    r_ext,        \* the channel c handed to WaitBy: TRUE once closed
    \* locals of each calling goroutine
    r_pc,         \* where the goroutine is
    r_task,       \* Run: the task t passed in (0 outside Run)
    r_i,          \* Exit: the loop index i, 1-based (0 outside the loop)
    r_errs,       \* Exit: err.errs of the local Errors
    \* history, for the properties only
    r_next,       \* next fresh task id
    r_closes,     \* how many times close(r.chanExit) has executed (saturates at 2)
    r_executed,   \* tasks whose Execute has been called
    r_failed,     \* tasks whose Execute returned an error or panicked
    r_trackLog,   \* tasks in the order they were appended to r.tasks
    r_shutLog,    \* tasks in the order their Shutdown was called
    r_shutOut,    \* what SafeCall(Shutdown) returned, in the same order
    r_exits,      \* how many invocations of Exit have returned (saturates at 2)
    r_errRets,    \* how many of them returned a non-nil error (saturates at 2)
    r_walkLate,   \* the shutdown walk in progress began after an Exit had returned
    r_lateShut,   \* TRUE once such a late walk has called a Shutdown
    r_last        \* the most recent return: who, from what, with what

r_struct == <<r_mutex, r_tasks, r_chanExit, r_onceExit, r_ext>>
r_locals == <<r_pc, r_task, r_i, r_errs>>
r_hist   == <<r_next, r_closes, r_executed, r_failed, r_trackLog, r_shutLog,
              r_shutOut, r_exits, r_errRets, r_walkLate, r_lateShut, r_last>>
r_vars   == <<r_struct, r_locals, r_hist>>

VARIABLES
    \* duplexWaiter structs (waiter.go), one per waiter
    w_c,          \* channelWaiter.c: TRUE once closed
    w_d,          \* receiptableWaiter.d: TRUE once closed
    w_once,       \* duplexWaiter.once: TRUE once close has run
    w_ronce,      \* receiptableWaiter.once: TRUE once done has run
    \* the goroutines sharing the stand-alone waiter
    w_pc,         \* where each goroutine is
    \* history, for the properties only
    w_cCloses,    \* per waiter: executions of close(w.c) (saturates at 2)
    w_dCloses,    \* per waiter: executions of close(w.d) (saturates at 2)
    w_doneBy,     \* the receivers Done has been called on: "self", "Waiter()"
    w_cawdDone,   \* TRUE once a CloseAndWaitDone on the stand-alone waiter returned
    w_seen,       \* per goroutine: TRUE once a receive of it from c has completed
    w_blind,      \* TRUE once Done was called by a goroutine with no such receive
    w_early,      \* TRUE once Done was called while c was still open
    w_closeCalled \* TRUE once Close was called on the stand-alone waiter

w_struct == <<w_c, w_d, w_once, w_ronce, w_cCloses, w_dCloses>>
w_obs    == <<w_seen, w_blind, w_early, w_closeCalled>>
w_vars   == <<w_struct, w_pc, w_doneBy, w_cawdDone, w_obs>>

VARIABLES
    \* broadcaster struct (broadcaster.go:49-53)
    b_mutex,      \* b.mutex: 0 when free, else the goroutine holding it
    b_waiters,    \* b.waiters: sequence of waiter ids
    b_closed,     \* b.closed
    \* locals of each calling goroutine
    b_pc,         \* where the goroutine is
    b_i,          \* close: the loop index i, 1-based (0 outside the loop)
    b_w,          \* close: the waiter whose CloseAndWaitDone is running
    \* history, for the properties only
    b_nextW,      \* id of the next waiter NewDuplexWaiter creates
    b_snap,       \* b.waiters as the current (or last) walk found it
    b_sigLog,     \* waiters in the order that walk raised their signals
    b_hsLog,      \* waiters in the order their CloseAndWaitDone returned
    b_lastNew,    \* what the last NewWaiter returned: a waiter id, or Empty
    b_last,       \* the most recent call to pass its Lock, and what it found
    b_closeCalled,\* TRUE once a Close has passed its Lock
    b_walks       \* how many walks of b.waiters have begun (saturates at 2)

b_struct == <<b_mutex, b_waiters, b_closed>>
b_locals == <<b_pc, b_i, b_w>>
b_calls  == <<b_last, b_closeCalled, b_walks>>
b_hist   == <<b_nextW, b_snap, b_sigLog, b_hsLog, b_lastNew, b_calls>>
b_vars   == <<b_struct, b_locals, b_hist>>

VARIABLES
    \* the closeable waiter NewCloseableWaiter returns
    c_impl,       \* which of the two definitions made it ("none" before)
    c_msg,        \* its signal channel (c, or messageChan): TRUE once closed
    c_receipt,    \* channelWaiter.receiptChan of waiter.go: TRUE once closed
    c_once,       \* the sync.Once guarding the close of the signal channel
    c_receiptOnce,\* channelWaiter.receiptOnce of waiter.go
    \* the goroutines sharing it
    c_pc          \* where each goroutine is

c_vars == <<c_impl, c_msg, c_receipt, c_once, c_receiptOnce, c_pc>>

VARIABLES
    \* waitQueue struct (wait_queue.go:49-52)
    q_mutex,      \* wq.mutex: 0 when free, else the goroutine holding it
    q_queue,      \* wq.queue: sequence of waiter ids, oldest first
    q_kind,       \* per waiter: "closeable" (NewWaiter), "receiptable"
                  \* (NewReceiptableWaiter), "none" while not created
    \* locals of each calling goroutine
    q_pc,         \* where the goroutine is
    q_n,          \* Release: the argument n; ReleaseAll: n = len(wq.queue)
    q_i,          \* the loop index i, 0-based
    q_w,          \* the waiter whose Close() has not returned yet, or Empty
    \* history, for the properties only
    q_nextW,      \* id of the next waiter the queue creates
    q_snap,       \* wq.queue as the current (or last) release found it
    q_relLog,     \* waiters in the order that release raised their signals
    q_last,       \* the most recent return of Release, ReleaseAll or Len
    q_released    \* the sum of what Release and ReleaseAll have returned

q_struct == <<q_mutex, q_queue, q_kind>>
q_locals == <<q_pc, q_n, q_i, q_w>>
q_hist   == <<q_nextW, q_snap, q_relLog, q_last, q_released>>
q_vars   == <<q_struct, q_locals, q_hist>>

VARIABLES
    \* the goroutines sharing the empty waiter (empty_waiter.go), which has no
    \* field of its own
    e_pc,         \* where each goroutine is
    \* history, for the properties only
    e_waits,      \* calls of Wait that have returned (saturates at 2)
    e_recvs,      \* receives from Channel() that have completed (saturates at 2)
    e_dones       \* calls of Done (saturates at 2)

e_vars == <<e_pc, e_waits, e_recvs, e_dones>>

VARIABLES
    \* the callers of SafeCall and MustCall (caller.go), which keep no state
    k_call        \* the last call each goroutine made: the function, the
                  \* function it was given and what came of it

k_vars == <<k_call>>

VARIABLES
    \* an Errors collection (errors.go)
    x_errs,       \* e.errs
    \* history, for the properties only
    x_added,      \* the arguments of the Add calls made, in order
    x_read        \* what Len, First, Last and All returned, read together
                  \* since the last Add

x_vars == <<x_errs, x_added, x_read>>

vars == <<r_vars, w_vars, b_vars, c_vars, q_vars, e_vars, k_vars, x_vars>>

\* What the steps of one object leave alone: the other objects.
r_frame == <<w_vars, b_vars, c_vars, q_vars, e_vars, k_vars, x_vars>>
w_frame == <<r_vars, b_vars, c_vars, q_vars, e_vars, k_vars, x_vars>>
b_frame == <<r_vars, c_vars, q_vars, e_vars, k_vars, x_vars>>
c_frame == <<r_vars, w_vars, b_vars, q_vars, e_vars, k_vars, x_vars>>
q_frame == <<r_vars, b_vars, c_vars, e_vars, k_vars, x_vars>>
e_frame == <<r_vars, w_vars, b_vars, c_vars, q_vars, k_vars, x_vars>>
k_frame == <<r_vars, w_vars, b_vars, c_vars, q_vars, e_vars, x_vars>>
x_frame == <<r_vars, w_vars, b_vars, c_vars, q_vars, e_vars, k_vars>>

\* ------------------------------------------------------------ error values
\* An error value: k is its dynamic type, id tells plain errors apart, errs is
\* the content of an *Errors.
NilErr       == [k |-> "nil",     id |-> 0, errs |-> <<>>]
Pending      == [k |-> "pending", id |-> 0, errs |-> <<>>]
ErrExited    == [k |-> "exited",  id |-> 0, errs |-> <<>>]
PlainErr(n)  == [k |-> "err",     id |-> n, errs |-> <<>>]
PanicError(v) == [k |-> "panic",  id |-> v, errs |-> <<>>]
ErrorsOf(es) == [k |-> "errors",  id |-> 0, errs |-> es]

\* The nil interface value, as the value recover() returns.
NilValue == 0
\* The *runtime.PanicNilError that recover() returns after panic(nil) in a
\* build whose runtime replaces the nil panic value.
PanicNilError == 1
\* Some other panic value ("err4" and "test" in the tests).
TestPayload == 2

\* A panic value as such, where an error can stand too (the argument of panic).
Payload(v) == [k |-> "payload", id |-> v, errs |-> <<>>]

\* What a called function does: return ret, or panic, after which recover()
\* returns v in the deferred function of the caller.
Returns(e) == [panics |-> FALSE, ret |-> e, v |-> 0]
Panics(v)  == [panics |-> TRUE, ret |-> NilErr, v |-> v]

\* if err != nil { _, ok = err.(*PanicError) }; return
IsPanicError(err) == IF err # NilErr THEN err.k = "panic" ELSE FALSE

\* defer func() { if v := recover(); v != nil { err = &PanicError{v: v} } }()
\* err = f(); return.  When f panics err still holds nil, its zero value.
SafeCall(f) == IF f.panics /\ f.v # NilValue THEN PanicError(f.v) ELSE f.ret

\* What a call leaves behind: a normal return of val, or a panic with val.
Outcome(panics, val) == [panics |-> panics, val |-> val]

\* Faulty variant of MustCall: a PanicError is thrown as it is, wrapper included.
MustCall_NoUnwrap(f) ==
    IF f.panics THEN Outcome(TRUE, Payload(f.v))
    ELSE IF f.ret # NilErr THEN Outcome(TRUE, f.ret)
    ELSE Outcome(FALSE, NilErr)

\* if err := f(); err != nil { if e, ok := err.(*PanicError); ok { panic(e.v) }
\* panic(err) }.  A panic of f itself passes through.
MustCall(f) ==
    IF f.panics THEN Outcome(TRUE, Payload(f.v))
    ELSE IF f.ret # NilErr
         THEN (IF f.ret.k = "panic" THEN Outcome(TRUE, Payload(f.ret.id))
               ELSE Outcome(TRUE, f.ret))
    ELSE Outcome(FALSE, NilErr)

\* Faulty variant of Errors_Add: an *Errors is appended as one element, not spliced.
Errors_Add_NoFlatten(errs, err) ==
    IF err.k = "nil" THEN errs ELSE Append(errs, err)

\* Faulty variant of Errors_Add: the elements of an *Errors are spliced in
\* front of the collection.
Errors_Add_SpliceAtHead(errs, err) ==
    IF err.k = "nil" THEN errs
    ELSE IF err.k = "errors"
         THEN (IF Len(err.errs) > 0 THEN err.errs \o errs ELSE errs)
         ELSE Append(errs, err)

Errors_Add(errs, err) ==
    IF err.k = "nil" THEN errs
    ELSE IF err.k = "errors"
         THEN (IF Len(err.errs) > 0 THEN errs \o err.errs ELSE errs)
         ELSE Append(errs, err)

Errors_First(errs) == IF Len(errs) = 0 THEN NilErr ELSE errs[1]

Errors_Last(errs) == IF Len(errs) = 0 THEN NilErr ELSE errs[Len(errs)]

Errors_All(errs) == errs

Errors_Len(errs) == Len(errs)

\* The behaviours of a task's Execute and Shutdown.  Error ids 10*t+j keep the
\* errors of different tasks apart.
ExecuteBehaviours(t) == { Returns(NilErr), Returns(PlainErr(10 * t)), Panics(10 * t) }

ShutdownBehaviours(t) ==
    { Returns(NilErr), Returns(PlainErr(10 * t)), Panics(10 * t),
      Returns(ErrorsOf(<<>>)),
      Returns(ErrorsOf(<<PlainErr(10 * t + 1), PlainErr(10 * t + 2)>>)) }

\* ------------------------------------------------------------------ Runner
\* A return from a method of the Runner.  op: the method that was called
\* ("Run", "MustRun", "Exit", "WaitBy"); via: for WaitBy, the select case
\* taken, for MustRun, whether it returned the runner ("return") or panicked
\* ("panic"); ret: the error returned, for a MustRun that panicked the value
\* it panicked with; late: for Run, MustRun and Exit, whether the runner had
\* exited (an Exit had returned) when the call took the lock; task: for Run and
\* MustRun, the task passed in.
Return(op, via, ret, late, task) ==
    [op |-> op, via |-> via, ret |-> ret, late |-> late, task |-> task]

NoReturn == Return("none", "none", Pending, FALSE, 0)

\* Faulty variant of MustRun_Return: the result of Run is dropped.
MustRun_Return_NoPanic(err, late, task) ==
    Return("MustRun", "return", NilErr, late, task)

\* MustCall(func() error { return r.Run(t) }); return r, from the moment Run
\* has returned err.
MustRun_Return(err, late, task) ==
    LET out == MustCall(Returns(err))
    IN  Return("MustRun", IF out.panics THEN "panic" ELSE "return", out.val,
               late, task)

\* The return of Run with err, to its caller or (must) to the function
\* MustRun gave to MustCall.  MustRun does nothing before it calls Run, so
\* which of the two made the call is drawn when Run returns.
Run_Return(must, err, late, task) ==
    IF must THEN MustRun_Return(err, late, task)
    ELSE Return("Run", "none", err, late, task)

Exited == r_chanExit

RInit ==
    /\ r_mutex = 0
    /\ r_tasks = <<>>
    /\ r_chanExit = FALSE
    /\ r_onceExit = FALSE
    /\ r_ext = FALSE
    /\ r_pc = [p \in RProcs |-> "idle"]
    /\ r_task = [p \in RProcs |-> 0]
    /\ r_i = [p \in RProcs |-> 0]
    /\ r_errs = [p \in RProcs |-> <<>>]
    /\ r_next = 1
    /\ r_closes = 0
    /\ r_executed = {}
    /\ r_failed = {}
    /\ r_trackLog = <<>>
    /\ r_shutLog = <<>>
    /\ r_shutOut = <<>>
    /\ r_exits = 0
    /\ r_errRets = 0
    /\ r_walkLate = FALSE
    /\ r_lateShut = FALSE
    /\ r_last = NoReturn

\* Faulty variant of OnceExit_Do: the channel is never closed.
OnceExit_Do_Never == UNCHANGED <<r_onceExit, r_chanExit, r_closes>>

\* Faulty variant of OnceExit_Do: close(r.chanExit) without the sync.Once.
OnceExit_Do_Always ==
    /\ r_onceExit' = TRUE
    /\ r_chanExit' = TRUE
    /\ r_closes' = IF r_closes < 2 THEN r_closes + 1 ELSE 2

\* r.onceExit.Do(func() { close(r.chanExit) })
OnceExit_Do ==
    IF r_onceExit
    THEN UNCHANGED <<r_onceExit, r_chanExit, r_closes>>
    ELSE /\ r_onceExit' = TRUE
         /\ r_chanExit' = TRUE
         /\ r_closes' = IF r_closes < 2 THEN r_closes + 1 ELSE 2

\* Exit's return, with its deferred function: close r.chanExit once, unlock.
Exit_Deferred(p, ret) ==
    /\ OnceExit_Do
    /\ r_mutex' = 0
    /\ r_exits' = IF r_exits < 2 THEN r_exits + 1 ELSE 2
    /\ r_errRets' = IF ret # NilErr /\ r_errRets < 2 THEN r_errRets + 1
                    ELSE r_errRets
    /\ r_last' = Return(IF r_pc[p] \in {"waitby_exit", "waitby_walk"}
                           THEN "WaitBy" ELSE "Exit",
                        IF r_pc[p] \in {"waitby_exit", "waitby_walk"}
                           THEN "c" ELSE "none",
                        ret, r_exits > 0, 0)

\* Faulty variant of Run_Enter: Run does not take r.mutex.
Run_Enter_NoLock(p) ==
    /\ UNCHANGED r_frame
    /\ r_pc[p] = "idle"
    /\ r_next <= MaxTasks
    /\ r_next' = r_next + 1
    /\ IF Exited
       THEN /\ \E must \in BOOLEAN :
                 r_last' = Run_Return(must, ErrExited, Exited, r_next)
            /\ UNCHANGED <<r_pc, r_task>>
       ELSE /\ r_pc' = [r_pc EXCEPT ![p] = "run_exec"]
            /\ r_task' = [r_task EXCEPT ![p] = r_next]
            /\ UNCHANGED r_last
    /\ UNCHANGED <<r_mutex, r_tasks, r_chanExit, r_onceExit, r_ext, r_i, r_errs,
                   r_closes, r_executed, r_failed, r_trackLog, r_shutLog,
                   r_shutOut, r_exits, r_errRets, r_walkLate, r_lateShut>>

\* Faulty variant of Run_Enter: Exited() is not consulted.
Run_Enter_NoExitedCheck(p) ==
    /\ UNCHANGED r_frame
    /\ r_pc[p] = "idle"
    /\ r_next <= MaxTasks
    /\ r_mutex = 0
    /\ r_next' = r_next + 1
    /\ r_mutex' = p
    /\ r_pc' = [r_pc EXCEPT ![p] = "run_exec"]
    /\ r_task' = [r_task EXCEPT ![p] = r_next]
    /\ UNCHANGED <<r_tasks, r_chanExit, r_onceExit, r_ext, r_i, r_errs,
                   r_closes, r_executed, r_failed, r_trackLog, r_shutLog,
                   r_shutOut, r_exits, r_errRets, r_walkLate, r_lateShut, r_last>>

\* r.Run(t) with a fresh task t, up to the call of Execute:
\* r.mutex.Lock(); if r.Exited() { return ErrExited }
Run_Enter(p) ==
    /\ UNCHANGED r_frame
    /\ r_pc[p] = "idle"
    /\ r_next <= MaxTasks
    /\ r_mutex = 0
    /\ r_next' = r_next + 1
    /\ IF Exited
       THEN /\ \E must \in BOOLEAN :
                 r_last' = Run_Return(must, ErrExited, Exited, r_next)
            /\ UNCHANGED <<r_mutex, r_pc, r_task>>
       ELSE /\ r_mutex' = p
            /\ r_pc' = [r_pc EXCEPT ![p] = "run_exec"]
            /\ r_task' = [r_task EXCEPT ![p] = r_next]
            /\ UNCHANGED r_last
    /\ UNCHANGED <<r_tasks, r_chanExit, r_onceExit, r_ext, r_i, r_errs,
                   r_closes, r_executed, r_failed, r_trackLog, r_shutLog,
                   r_shutOut, r_exits, r_errRets, r_walkLate, r_lateShut>>

\* Faulty variant of Run_Execute: the task is appended whatever Execute returned.
Run_Execute_TrackAlways(p) ==
    /\ UNCHANGED r_frame
    /\ r_pc[p] = "run_exec"
    /\ \E f \in ExecuteBehaviours(r_task[p]) :
         LET err == SafeCall(f) IN
         /\ r_executed' = r_executed \cup {r_task[p]}
         /\ r_last' = Return("Run", "none", err, Exited, r_task[p])
         /\ r_failed' = IF err # NilErr THEN r_failed \cup {r_task[p]} ELSE r_failed
         /\ r_tasks' = Append(r_tasks, r_task[p])
         /\ r_trackLog' = Append(r_trackLog, r_task[p])
    /\ r_mutex' = 0
    /\ r_pc' = [r_pc EXCEPT ![p] = "idle"]
    /\ r_task' = [r_task EXCEPT ![p] = 0]
    /\ UNCHANGED <<r_chanExit, r_onceExit, r_ext, r_i, r_errs, r_next, r_closes,
                   r_shutLog, r_shutOut, r_exits, r_errRets, r_walkLate, r_lateShut>>

\* err := SafeCall(t.Execute); if err != nil { return err };
\* r.tasks = append(r.tasks, t); return nil (with the deferred unlock).
Run_Execute(p) ==
    /\ UNCHANGED r_frame
    /\ r_pc[p] = "run_exec"
    /\ \E f \in ExecuteBehaviours(r_task[p]) :
         LET err == SafeCall(f) IN
         /\ r_executed' = r_executed \cup {r_task[p]}
         /\ \E must \in BOOLEAN :
              r_last' = Run_Return(must, err, Exited, r_task[p])
         /\ IF err # NilErr
            THEN /\ r_failed' = r_failed \cup {r_task[p]}
                 /\ UNCHANGED <<r_tasks, r_trackLog>>
            ELSE /\ r_tasks' = Append(r_tasks, r_task[p])
                 /\ r_trackLog' = Append(r_trackLog, r_task[p])
                 /\ UNCHANGED r_failed
    /\ r_mutex' = 0
    /\ r_pc' = [r_pc EXCEPT ![p] = "idle"]
    /\ r_task' = [r_task EXCEPT ![p] = 0]
    /\ UNCHANGED <<r_chanExit, r_onceExit, r_ext, r_i, r_errs, r_next, r_closes,
                   r_shutLog, r_shutOut, r_exits, r_errRets, r_walkLate, r_lateShut>>

\* Faulty variant of Exit_Enter: with no tracked task Exit returns nil before
\* its deferred function is set up, and r.chanExit is left open.
Exit_Enter_EmptySkipsClose(p) ==
    /\ UNCHANGED r_frame
    /\ r_pc[p] \in {"idle", "waitby_exit"}
    /\ r_mutex = 0
    /\ IF Len(r_tasks) = 0
       THEN /\ r_exits' = IF r_exits < 2 THEN r_exits + 1 ELSE 2
            /\ UNCHANGED r_errRets
            /\ r_last' = Return(IF r_pc[p] = "waitby_exit" THEN "WaitBy" ELSE "Exit",
                                IF r_pc[p] = "waitby_exit" THEN "c" ELSE "none",
                                NilErr, r_exits > 0, 0)
            /\ r_pc' = [r_pc EXCEPT ![p] = "idle"]
            /\ UNCHANGED <<r_mutex, r_onceExit, r_chanExit, r_closes, r_i,
                           r_errs, r_walkLate>>
       ELSE /\ r_mutex' = p
            /\ r_i' = [r_i EXCEPT ![p] = Len(r_tasks)]
            /\ r_errs' = [r_errs EXCEPT ![p] = <<>>]
            /\ r_pc' = [r_pc EXCEPT ![p] =
                           IF r_pc[p] = "idle" THEN "exit_walk" ELSE "waitby_walk"]
            /\ r_walkLate' = (r_exits > 0)
            /\ UNCHANGED <<r_onceExit, r_chanExit, r_closes, r_exits, r_errRets, r_last>>
    /\ UNCHANGED <<r_tasks, r_ext, r_task, r_next, r_executed, r_failed,
                   r_trackLog, r_shutLog, r_shutOut, r_lateShut>>

\* Faulty variant of Exit_Enter: r.chanExit is closed before the loop and not
\* in the deferred function.
Exit_Enter_CloseFirst(p) ==
    /\ UNCHANGED r_frame
    /\ r_pc[p] \in {"idle", "waitby_exit"}
    /\ r_mutex = 0
    /\ IF Len(r_tasks) = 0
       THEN /\ Exit_Deferred(p, NilErr)
            /\ r_pc' = [r_pc EXCEPT ![p] = "idle"]
            /\ UNCHANGED <<r_i, r_errs, r_walkLate>>
       ELSE /\ OnceExit_Do
            /\ r_mutex' = p
            /\ r_i' = [r_i EXCEPT ![p] = Len(r_tasks)]
            /\ r_errs' = [r_errs EXCEPT ![p] = <<>>]
            /\ r_pc' = [r_pc EXCEPT ![p] =
                           IF r_pc[p] = "idle" THEN "exit_walk" ELSE "waitby_walk"]
            /\ r_walkLate' = (r_exits > 0)
            /\ UNCHANGED <<r_exits, r_errRets, r_last>>
    /\ UNCHANGED <<r_tasks, r_ext, r_task, r_next, r_executed, r_failed,
                   r_trackLog, r_shutLog, r_shutOut, r_lateShut>>

\* Faulty variant of Exit_Enter: Exit does not take r.mutex before it looks at
\* r.tasks.
Exit_Enter_NoLock(p) ==
    /\ UNCHANGED r_frame
    /\ r_pc[p] \in {"idle", "waitby_exit"}
    /\ IF Len(r_tasks) = 0
       THEN /\ Exit_Deferred(p, NilErr)
            /\ r_pc' = [r_pc EXCEPT ![p] = "idle"]
            /\ UNCHANGED <<r_i, r_errs, r_walkLate>>
       ELSE /\ r_mutex' = p
            /\ r_i' = [r_i EXCEPT ![p] = Len(r_tasks)]
            /\ r_errs' = [r_errs EXCEPT ![p] = <<>>]
            /\ r_pc' = [r_pc EXCEPT ![p] =
                           IF r_pc[p] = "idle" THEN "exit_walk" ELSE "waitby_walk"]
            /\ r_walkLate' = (r_exits > 0)
            /\ UNCHANGED <<r_onceExit, r_chanExit, r_closes, r_exits, r_errRets, r_last>>
    /\ UNCHANGED <<r_tasks, r_ext, r_task, r_next, r_executed, r_failed,
                   r_trackLog, r_shutLog, r_shutOut, r_lateShut>>

\* r.Exit(), called directly or from WaitBy, up to the loop: r.mutex.Lock();
\* if len(r.tasks) == 0 { return nil }; err := new(Errors); i := len(r.tasks)-1
Exit_Enter(p) ==
    /\ UNCHANGED r_frame
    /\ r_pc[p] \in {"idle", "waitby_exit"}
    /\ r_mutex = 0
    /\ IF Len(r_tasks) = 0
       THEN /\ Exit_Deferred(p, NilErr)
            /\ r_pc' = [r_pc EXCEPT ![p] = "idle"]
            /\ UNCHANGED <<r_i, r_errs, r_walkLate>>
       ELSE /\ r_mutex' = p
            /\ r_i' = [r_i EXCEPT ![p] = Len(r_tasks)]
            /\ r_errs' = [r_errs EXCEPT ![p] = <<>>]
            /\ r_pc' = [r_pc EXCEPT ![p] =
                           IF r_pc[p] = "idle" THEN "exit_walk" ELSE "waitby_walk"]
            /\ r_walkLate' = (r_exits > 0)
            /\ UNCHANGED <<r_onceExit, r_chanExit, r_closes, r_exits, r_errRets, r_last>>
    /\ UNCHANGED <<r_tasks, r_ext, r_task, r_next, r_executed, r_failed,
                   r_trackLog, r_shutLog, r_shutOut, r_lateShut>>

\* Faulty variant of Exit_Shutdown: Shutdown is called without SafeCall, and a
\* panic of it ends the loop.
Exit_Shutdown_PanicEscapes(p) ==
    /\ UNCHANGED r_frame
    /\ r_pc[p] \in {"exit_walk", "waitby_walk"}
    /\ r_i[p] >= 1
    /\ \E f \in ShutdownBehaviours(r_tasks[r_i[p]]) :
         IF f.panics
         THEN /\ r_i' = [r_i EXCEPT ![p] = 0]
              /\ UNCHANGED <<r_errs, r_shutOut>>
         ELSE /\ r_errs' = [r_errs EXCEPT ![p] = Errors_Add(r_errs[p], f.ret)]
              /\ r_shutOut' = Append(r_shutOut, f.ret)
              /\ r_i' = [r_i EXCEPT ![p] = r_i[p] - 1]
    /\ r_shutLog' = Append(r_shutLog, r_tasks[r_i[p]])
    /\ r_lateShut' = (r_lateShut \/ r_walkLate)
    /\ UNCHANGED <<r_struct, r_pc, r_task, r_next, r_closes, r_executed,
                   r_failed, r_trackLog, r_exits, r_errRets, r_walkLate, r_last>>

\* Faulty variant of Exit_Shutdown: the loop breaks at the first failing Shutdown.
Exit_Shutdown_StopOnError(p) ==
    /\ UNCHANGED r_frame
    /\ r_pc[p] \in {"exit_walk", "waitby_walk"}
    /\ r_i[p] >= 1
    /\ \E f \in ShutdownBehaviours(r_tasks[r_i[p]]) :
         LET res == SafeCall(f) IN
         /\ r_errs' = [r_errs EXCEPT ![p] = Errors_Add(r_errs[p], res)]
         /\ r_shutOut' = Append(r_shutOut, res)
         /\ r_i' = [r_i EXCEPT ![p] = IF res # NilErr THEN 0 ELSE r_i[p] - 1]
    /\ r_shutLog' = Append(r_shutLog, r_tasks[r_i[p]])
    /\ r_lateShut' = (r_lateShut \/ r_walkLate)
    /\ UNCHANGED <<r_struct, r_pc, r_task, r_next, r_closes, r_executed,
                   r_failed, r_trackLog, r_exits, r_errRets, r_walkLate, r_last>>

\* One iteration of the loop: err.Add(SafeCall(r.tasks[i].Shutdown)); i--
Exit_Shutdown(p) ==
    /\ UNCHANGED r_frame
    /\ r_pc[p] \in {"exit_walk", "waitby_walk"}
    /\ r_i[p] >= 1
    /\ \E f \in ShutdownBehaviours(r_tasks[r_i[p]]) :
         LET res == SafeCall(f) IN
         /\ r_errs' = [r_errs EXCEPT ![p] = Errors_Add(r_errs[p], res)]
         /\ r_shutOut' = Append(r_shutOut, res)
    /\ r_shutLog' = Append(r_shutLog, r_tasks[r_i[p]])
    /\ r_i' = [r_i EXCEPT ![p] = r_i[p] - 1]
    /\ r_lateShut' = (r_lateShut \/ r_walkLate)
    /\ UNCHANGED <<r_struct, r_pc, r_task, r_next, r_closes, r_executed,
                   r_failed, r_trackLog, r_exits, r_errRets, r_walkLate, r_last>>

\* Faulty variant of Exit_Return: the collected errors are dropped and nil is
\* returned.
Exit_Return_DropErrors(p) ==
    /\ UNCHANGED r_frame
    /\ r_pc[p] \in {"exit_walk", "waitby_walk"}
    /\ r_i[p] = 0
    /\ r_tasks' = <<>>
    /\ Exit_Deferred(p, NilErr)
    /\ r_pc' = [r_pc EXCEPT ![p] = "idle"]
    /\ r_errs' = [r_errs EXCEPT ![p] = <<>>]
    /\ r_walkLate' = FALSE
    /\ UNCHANGED <<r_ext, r_task, r_i, r_next, r_executed, r_failed,
                   r_trackLog, r_shutLog, r_shutOut, r_lateShut>>

\* Faulty variant of Exit_Return: r.tasks is not cleared.
Exit_Return_KeepTasks(p) ==
    /\ UNCHANGED r_frame
    /\ r_pc[p] \in {"exit_walk", "waitby_walk"}
    /\ r_i[p] = 0
    /\ Exit_Deferred(p, IF Errors_Len(r_errs[p]) > 1 THEN ErrorsOf(r_errs[p])
                        ELSE Errors_First(r_errs[p]))
    /\ r_pc' = [r_pc EXCEPT ![p] = "idle"]
    /\ r_errs' = [r_errs EXCEPT ![p] = <<>>]
    /\ r_walkLate' = FALSE
    /\ UNCHANGED <<r_tasks, r_ext, r_task, r_i, r_next, r_executed, r_failed,
                   r_trackLog, r_shutLog, r_shutOut, r_lateShut>>

\* After the loop: r.tasks = r.tasks[:0]; if err.Len() > 1 { return err };
\* return err.First() (with the deferred close-once and unlock).
Exit_Return(p) ==
    /\ UNCHANGED r_frame
    /\ r_pc[p] \in {"exit_walk", "waitby_walk"}
    /\ r_i[p] = 0
    /\ r_tasks' = <<>>
    /\ Exit_Deferred(p, IF Errors_Len(r_errs[p]) > 1 THEN ErrorsOf(r_errs[p])
                        ELSE Errors_First(r_errs[p]))
    /\ r_pc' = [r_pc EXCEPT ![p] = "idle"]
    /\ r_errs' = [r_errs EXCEPT ![p] = <<>>]
    /\ r_walkLate' = FALSE
    /\ UNCHANGED <<r_ext, r_task, r_i, r_next, r_executed, r_failed,
                   r_trackLog, r_shutLog, r_shutOut, r_lateShut>>

\* A goroutine calls r.WaitBy(c) and blocks in the select.
WaitBy_Call(p) ==
    /\ UNCHANGED r_frame
    /\ r_pc[p] = "idle"
    /\ r_pc' = [r_pc EXCEPT ![p] = "waitby_select"]
    /\ UNCHANGED <<r_struct, r_task, r_i, r_errs, r_hist>>

\* Faulty variant of WaitBy_C: the case is taken although c has not fired.
WaitBy_C_NoGuard(p) ==
    /\ UNCHANGED r_frame
    /\ r_pc[p] = "waitby_select"
    /\ r_pc' = [r_pc EXCEPT ![p] = "waitby_exit"]
    /\ UNCHANGED <<r_struct, r_task, r_i, r_errs, r_hist>>

\* case <-c: return r.Exit()
WaitBy_C(p) ==
    /\ UNCHANGED r_frame
    /\ r_pc[p] = "waitby_select"
    /\ r_ext
    /\ r_pc' = [r_pc EXCEPT ![p] = "waitby_exit"]
    /\ UNCHANGED <<r_struct, r_task, r_i, r_errs, r_hist>>

\* case <-r.chanExit: return nil
WaitBy_ChanExit(p) ==
    /\ UNCHANGED r_frame
    /\ r_pc[p] = "waitby_select"
    /\ r_chanExit
    /\ r_pc' = [r_pc EXCEPT ![p] = "idle"]
    /\ r_last' = Return("WaitBy", "exit", NilErr, FALSE, 0)
    /\ UNCHANGED <<r_struct, r_task, r_i, r_errs, r_next, r_closes, r_executed,
                   r_failed, r_trackLog, r_shutLog, r_shutOut, r_exits, r_errRets,
                   r_walkLate, r_lateShut>>

\* The owner of the channel c closes it (once).
CloseC ==
    /\ UNCHANGED r_frame
    /\ ~r_ext
    /\ r_ext' = TRUE
    /\ UNCHANGED <<r_mutex, r_tasks, r_chanExit, r_onceExit, r_locals, r_hist>>

RNext ==
    \/ \E p \in RProcs : Run_Enter(p)
    \/ \E p \in RProcs : Run_Execute(p)
    \/ \E p \in RProcs : Exit_Enter(p)
    \/ \E p \in RProcs : Exit_Shutdown(p)
    \/ \E p \in RProcs : Exit_Return(p)
    \/ \E p \in RProcs : WaitBy_Call(p)
    \/ \E p \in RProcs : WaitBy_C(p)
    \/ \E p \in RProcs : WaitBy_ChanExit(p)
    \/ CloseC

\* ------------------------------------------------------------ duplex waiter
Empty == 0 - 1

WInit ==
    /\ w_c = [w \in Waiters |-> FALSE]
    /\ w_d = [w \in Waiters |-> FALSE]
    /\ w_once = [w \in Waiters |-> FALSE]
    /\ w_ronce = [w \in Waiters |-> FALSE]
    /\ w_cCloses = [w \in Waiters |-> 0]
    /\ w_dCloses = [w \in Waiters |-> 0]
    /\ w_pc = [p \in WProcs |-> "idle"]
    /\ w_doneBy = {}
    /\ w_cawdDone = FALSE
    /\ w_seen = [p \in WProcs |-> FALSE]
    /\ w_blind = FALSE
    /\ w_early = FALSE
    /\ w_closeCalled = FALSE

\* Faulty variant of DuplexWaiter_Close: close(w.c) without the sync.Once.
DuplexWaiter_Close_NoOnce(w) ==
    /\ w_once' = [w_once EXCEPT ![w] = TRUE]
    /\ w_c' = [w_c EXCEPT ![w] = TRUE]
    /\ w_cCloses' = [w_cCloses EXCEPT ![w] = IF @ < 2 THEN @ + 1 ELSE 2]

\* Faulty variant of DuplexWaiter_Close: a Close on a closed waiter replaces c
\* by a new open channel.
DuplexWaiter_Close_Reopen(w) ==
    IF w_once[w]
    THEN /\ w_c' = [w_c EXCEPT ![w] = FALSE]
         /\ UNCHANGED <<w_once, w_cCloses>>
    ELSE /\ w_once' = [w_once EXCEPT ![w] = TRUE]
         /\ w_c' = [w_c EXCEPT ![w] = TRUE]
         /\ w_cCloses' = [w_cCloses EXCEPT ![w] = IF @ < 2 THEN @ + 1 ELSE 2]

\* func (w *duplexWaiter) Close() { w.once.Do(w.close) }, close(w.c)
DuplexWaiter_Close(w) ==
    IF w_once[w]
    THEN UNCHANGED <<w_c, w_once, w_cCloses>>
    ELSE /\ w_once' = [w_once EXCEPT ![w] = TRUE]
         /\ w_c' = [w_c EXCEPT ![w] = TRUE]
         /\ w_cCloses' = [w_cCloses EXCEPT ![w] = IF @ < 2 THEN @ + 1 ELSE 2]

\* Faulty variant of ReceiptableWaiter_Done: the first call only records that a
\* holder is done, and d is closed by the second call.
ReceiptableWaiter_Done_SecondCall(w) ==
    IF w_ronce[w]
    THEN /\ w_d' = [w_d EXCEPT ![w] = TRUE]
         /\ w_dCloses' = [w_dCloses EXCEPT ![w] =
                              IF w_d[w] THEN @ ELSE IF @ < 2 THEN @ + 1 ELSE 2]
         /\ UNCHANGED w_ronce
    ELSE /\ w_ronce' = [w_ronce EXCEPT ![w] = TRUE]
         /\ UNCHANGED <<w_d, w_dCloses>>

\* func (w *receiptableWaiter) Done() { w.once.Do(w.done) }, close(w.d)
ReceiptableWaiter_Done(w) ==
    IF w_ronce[w]
    THEN UNCHANGED <<w_d, w_ronce, w_dCloses>>
    ELSE /\ w_ronce' = [w_ronce EXCEPT ![w] = TRUE]
         /\ w_d' = [w_d EXCEPT ![w] = TRUE]
         /\ w_dCloses' = [w_dCloses EXCEPT ![w] = IF @ < 2 THEN @ + 1 ELSE 2]

\* Faulty variant of ChannelWaiter_Wait: the receive does not block.
ChannelWaiter_Wait_NoBlock(w) == TRUE

\* <-w.Channel() can complete: the channel c is closed.
ChannelWaiter_Wait(w) == w_c[w]

\* internal.ClosedChan(): a channel that is closed from the start.
ClosedChan == TRUE

\* Faulty variant of Waiter_Wait: the empty waiter's Wait receives from a
\* channel that is never closed.
Waiter_Wait_EmptyBlocks(w) == IF w = Empty THEN FALSE ELSE ChannelWaiter_Wait(w)

\* w.Wait() on a ReceiptableWaiter w can return: at once on the empty waiter
\* (its Wait does nothing), after close(w.c) on a duplex waiter.
Waiter_Wait(w) == IF w = Empty THEN TRUE ELSE ChannelWaiter_Wait(w)

\* The channel w.Channel() returns is closed.
Waiter_Channel(w) == IF w = Empty THEN ClosedChan ELSE w_c[w]

\* Faulty variant of DuplexWaiter_WaitDone: the receive does not block.
DuplexWaiter_WaitDone_NoBlock(w) == TRUE

\* <-w.DoneChannel() can complete: the channel d is closed.
DuplexWaiter_WaitDone(w) == w_d[w]

\* A goroutine calls Close() on the stand-alone waiter.
W_Close(p) ==
    /\ UNCHANGED w_frame
    /\ w_pc[p] = "idle"
    /\ DuplexWaiter_Close(Standalone)
    /\ w_closeCalled' = TRUE
    /\ UNCHANGED <<w_d, w_ronce, w_dCloses, w_pc, w_doneBy, w_cawdDone,
                   w_seen, w_blind, w_early>>

\* A goroutine calls Done() on the stand-alone waiter or on its Waiter() view
\* (the embedded *receiptableWaiter: the same method on the same struct).
W_Done(p) ==
    /\ UNCHANGED w_frame
    /\ w_pc[p] = "idle"
    /\ ReceiptableWaiter_Done(Standalone)
    /\ \E recv \in {"self", "Waiter()"} : w_doneBy' = w_doneBy \cup {recv}
    /\ w_blind' = (w_blind \/ ~w_seen[p])
    /\ w_early' = (w_early \/ ~w_c[Standalone])
    /\ UNCHANGED <<w_c, w_once, w_cCloses, w_pc, w_cawdDone, w_seen,
                   w_closeCalled>>

\* A goroutine calls Wait() (or receives from Channel()) and blocks.
W_Wait_Call(p) ==
    /\ UNCHANGED w_frame
    /\ w_pc[p] = "idle"
    /\ w_pc' = [w_pc EXCEPT ![p] = "Wait"]
    /\ UNCHANGED <<w_struct, w_doneBy, w_cawdDone, w_obs>>

\* Faulty variant of W_Wait_Return: the signal is one value sent on c, which the
\* receive takes away.
W_Wait_Return_Consume(p) ==
    /\ UNCHANGED w_frame
    /\ w_pc[p] = "Wait"
    /\ ChannelWaiter_Wait(Standalone)
    /\ w_pc' = [w_pc EXCEPT ![p] = "idle"]
    /\ w_seen' = [w_seen EXCEPT ![p] = TRUE]
    /\ w_c' = [w_c EXCEPT ![Standalone] = FALSE]
    /\ UNCHANGED <<w_d, w_once, w_ronce, w_cCloses, w_dCloses, w_doneBy,
                   w_cawdDone, w_blind, w_early, w_closeCalled>>

\* Its receive from c completes.
W_Wait_Return(p) ==
    /\ UNCHANGED w_frame
    /\ w_pc[p] = "Wait"
    /\ ChannelWaiter_Wait(Standalone)
    /\ w_pc' = [w_pc EXCEPT ![p] = "idle"]
    /\ w_seen' = [w_seen EXCEPT ![p] = TRUE]
    /\ UNCHANGED <<w_struct, w_doneBy, w_cawdDone, w_blind, w_early,
                   w_closeCalled>>

\* A goroutine calls WaitDone() and blocks.
W_WaitDone_Call(p) ==
    /\ UNCHANGED w_frame
    /\ w_pc[p] = "idle"
    /\ w_pc' = [w_pc EXCEPT ![p] = "WaitDone"]
    /\ UNCHANGED <<w_struct, w_doneBy, w_cawdDone, w_obs>>

\* Its receive from d completes.
W_WaitDone_Return(p) ==
    /\ UNCHANGED w_frame
    /\ w_pc[p] = "WaitDone"
    /\ DuplexWaiter_WaitDone(Standalone)
    /\ w_pc' = [w_pc EXCEPT ![p] = "idle"]
    /\ UNCHANGED <<w_struct, w_doneBy, w_cawdDone, w_obs>>

\* Faulty variant of W_CloseAndWaitDone_Call: the Close also replaces d by a new
\* open channel, so that a receipt given earlier is forgotten.
W_CloseAndWaitDone_Call_ResetsReceipt(p) ==
    /\ UNCHANGED w_frame
    /\ w_pc[p] = "idle"
    /\ DuplexWaiter_Close(Standalone)
    /\ w_d' = [w_d EXCEPT ![Standalone] = FALSE]
    /\ w_ronce' = [w_ronce EXCEPT ![Standalone] = FALSE]
    /\ w_pc' = [w_pc EXCEPT ![p] = "CloseAndWaitDone"]
    /\ w_closeCalled' = TRUE
    /\ UNCHANGED <<w_dCloses, w_doneBy, w_cawdDone, w_seen, w_blind, w_early>>

\* A goroutine calls CloseAndWaitDone(): w.Close(), then it blocks in
\* w.WaitDone().
W_CloseAndWaitDone_Call(p) ==
    /\ UNCHANGED w_frame
    /\ w_pc[p] = "idle"
    /\ DuplexWaiter_Close(Standalone)
    /\ w_pc' = [w_pc EXCEPT ![p] = "CloseAndWaitDone"]
    /\ w_closeCalled' = TRUE
    /\ UNCHANGED <<w_d, w_ronce, w_dCloses, w_doneBy, w_cawdDone, w_seen,
                   w_blind, w_early>>

\* Faulty variant of W_CloseAndWaitDone_Return: CloseAndWaitDone returns after
\* its w.Close(), without the w.WaitDone().
W_CloseAndWaitDone_Return_NoWaitDone(p) ==
    /\ UNCHANGED w_frame
    /\ w_pc[p] = "CloseAndWaitDone"
    /\ w_pc' = [w_pc EXCEPT ![p] = "idle"]
    /\ w_cawdDone' = TRUE
    /\ UNCHANGED <<w_struct, w_doneBy, w_obs>>

\* Its w.WaitDone() completes and CloseAndWaitDone returns.
W_CloseAndWaitDone_Return(p) ==
    /\ UNCHANGED w_frame
    /\ w_pc[p] = "CloseAndWaitDone"
    /\ DuplexWaiter_WaitDone(Standalone)
    /\ w_pc' = [w_pc EXCEPT ![p] = "idle"]
    /\ w_cawdDone' = TRUE
    /\ UNCHANGED <<w_struct, w_doneBy, w_obs>>

WNext ==
    \/ \E p \in WProcs : W_Close(p)
    \/ \E p \in WProcs : W_Done(p)
    \/ \E p \in WProcs : W_Wait_Call(p)
    \/ \E p \in WProcs : W_Wait_Return(p)
    \/ \E p \in WProcs : W_WaitDone_Call(p)
    \/ \E p \in WProcs : W_WaitDone_Return(p)
    \/ \E p \in WProcs : W_CloseAndWaitDone_Call(p)
    \/ \E p \in WProcs : W_CloseAndWaitDone_Return(p)

\* -------------------------------------------------------------- Broadcaster
\* A call of a method of the Broadcaster, as it was when it passed its Lock:
\* op is the method, empty whether b.waiters was empty, closed what b.closed was.
Call(op, empty, closed) == [op |-> op, empty |-> empty, closed |-> closed]

BInit ==
    /\ b_mutex = 0
    /\ b_waiters = <<>>
    /\ b_closed = FALSE
    /\ b_pc = [q \in BProcs |-> "idle"]
    /\ b_i = [q \in BProcs |-> 0]
    /\ b_w = [q \in BProcs |-> Empty]
    /\ b_nextW = 1
    /\ b_snap = <<>>
    /\ b_sigLog = <<>>
    /\ b_hsLog = <<>>
    /\ b_lastNew = Empty
    /\ b_last = Call("none", TRUE, FALSE)
    /\ b_closeCalled = FALSE
    /\ b_walks = 0

\* Faulty variant of Broadcaster_NewWaiter: b.mutex is not taken.
Broadcaster_NewWaiter_NoLock(q) ==
    /\ UNCHANGED b_frame
    /\ b_pc[q] = "idle"
    /\ IF b_closed
       THEN /\ b_lastNew' = Empty
            /\ UNCHANGED <<b_waiters, b_nextW>>
       ELSE /\ b_nextW <= MaxWaiters
            /\ b_waiters' = Append(b_waiters, b_nextW)
            /\ b_lastNew' = b_nextW
            /\ b_nextW' = b_nextW + 1
    /\ b_last' = Call("NewWaiter", Len(b_waiters) = 0, b_closed)
    /\ UNCHANGED <<b_mutex, b_closed, b_locals, b_snap, b_sigLog, b_hsLog,
                   b_closeCalled, b_walks, w_vars>>

\* Faulty variant of Broadcaster_NewWaiter: b.closed is not consulted.
Broadcaster_NewWaiter_IgnoreClosed(q) ==
    /\ UNCHANGED b_frame
    /\ b_pc[q] = "idle"
    /\ b_mutex = 0
    /\ b_nextW <= MaxWaiters
    /\ b_waiters' = Append(b_waiters, b_nextW)
    /\ b_lastNew' = b_nextW
    /\ b_nextW' = b_nextW + 1
    /\ b_last' = Call("NewWaiter", Len(b_waiters) = 0, b_closed)
    /\ UNCHANGED <<b_mutex, b_closed, b_locals, b_snap, b_sigLog, b_hsLog,
                   b_closeCalled, b_walks, w_vars>>

\* func (b *broadcaster) NewWaiter(): under the lock, the shared empty waiter
\* if b.closed, else a new duplex waiter appended to b.waiters.
Broadcaster_NewWaiter(q) ==
    /\ UNCHANGED b_frame
    /\ b_pc[q] = "idle"
    /\ b_mutex = 0
    /\ IF b_closed
       THEN /\ b_lastNew' = Empty
            /\ UNCHANGED <<b_waiters, b_nextW>>
       ELSE /\ b_nextW <= MaxWaiters
            /\ b_waiters' = Append(b_waiters, b_nextW)
            /\ b_lastNew' = b_nextW
            /\ b_nextW' = b_nextW + 1
    /\ b_last' = Call("NewWaiter", Len(b_waiters) = 0, b_closed)
    /\ UNCHANGED <<b_mutex, b_closed, b_locals, b_snap, b_sigLog, b_hsLog,
                   b_closeCalled, b_walks, w_vars>>

\* Faulty variant of Broadcaster_close_begin: the loop is entered without the
\* test of len(b.waiters).
Broadcaster_close_begin_NoLenTest(q) ==
    /\ b_snap' = b_waiters
    /\ b_sigLog' = <<>>
    /\ b_hsLog' = <<>>
    /\ b_mutex' = q
    /\ b_pc' = [b_pc EXCEPT ![q] = "close"]
    /\ b_i' = [b_i EXCEPT ![q] = Len(b_waiters)]
    /\ b_walks' = IF b_walks < 2 THEN b_walks + 1 ELSE 2
    /\ UNCHANGED <<b_waiters, b_w, b_nextW, b_lastNew, w_vars>>

\* b.close() up to the loop: if n := len(b.waiters); n > 0 { i := n-1; ... },
\* else return (and the caller's deferred unlock).
Broadcaster_close_begin(q) ==
    /\ b_snap' = b_waiters
    /\ b_sigLog' = <<>>
    /\ b_hsLog' = <<>>
    /\ IF Len(b_waiters) > 0
       THEN /\ b_mutex' = q
            /\ b_pc' = [b_pc EXCEPT ![q] = "close"]
            /\ b_i' = [b_i EXCEPT ![q] = Len(b_waiters)]
            /\ b_walks' = IF b_walks < 2 THEN b_walks + 1 ELSE 2
       ELSE UNCHANGED <<b_mutex, b_pc, b_i, b_walks>>
    /\ UNCHANGED <<b_waiters, b_w, b_nextW, b_lastNew, w_vars>>

\* func (b *broadcaster) Broadcast(): b.mutex.Lock(); b.close()
Broadcaster_Broadcast(q) ==
    /\ UNCHANGED b_frame
    /\ b_pc[q] = "idle"
    /\ b_mutex = 0
    /\ b_last' = Call("Broadcast", Len(b_waiters) = 0, b_closed)
    /\ UNCHANGED <<b_closed, b_closeCalled>>
    /\ Broadcaster_close_begin(q)

\* Faulty variant of Broadcaster_Close: b.closed is set and b.close() is not
\* called.
Broadcaster_Close_NoWalk(q) ==
    /\ UNCHANGED b_frame
    /\ b_pc[q] = "idle"
    /\ b_mutex = 0
    /\ b_closed' = TRUE
    /\ b_last' = Call("Close", Len(b_waiters) = 0, b_closed)
    /\ b_closeCalled' = TRUE
    /\ UNCHANGED <<b_mutex, b_waiters, b_pc, b_i, b_w, b_nextW, b_snap, b_sigLog,
                   b_hsLog, b_lastNew, b_walks, w_vars>>

\* func (b *broadcaster) Close(): b.mutex.Lock(); b.closed = true; b.close()
Broadcaster_Close(q) ==
    /\ UNCHANGED b_frame
    /\ b_pc[q] = "idle"
    /\ b_mutex = 0
    /\ b_closed' = TRUE
    /\ b_last' = Call("Close", Len(b_waiters) = 0, b_closed)
    /\ b_closeCalled' = TRUE
    /\ Broadcaster_close_begin(q)

\* Faulty variant of Broadcaster_close_Close: the loop walks b.waiters front to back.
Broadcaster_close_Close_Forward(q) ==
    /\ UNCHANGED b_frame
    /\ b_pc[q] = "close"
    /\ b_i[q] >= 1
    /\ LET w == b_waiters[Len(b_waiters) + 1 - b_i[q]] IN
         /\ DuplexWaiter_Close(w)
         /\ b_w' = [b_w EXCEPT ![q] = w]
         /\ b_sigLog' = IF w_c[w] THEN b_sigLog ELSE Append(b_sigLog, w)
    /\ b_pc' = [b_pc EXCEPT ![q] = "waitdone"]
    /\ UNCHANGED <<b_struct, b_i, b_nextW, b_snap, b_hsLog, b_lastNew, b_calls,
                   w_d, w_ronce, w_dCloses, w_pc, w_doneBy, w_cawdDone, w_obs>>

\* The loop body, first half: b.waiters[i].CloseAndWaitDone() runs w.Close().
Broadcaster_close_Close(q) ==
    /\ UNCHANGED b_frame
    /\ b_pc[q] = "close"
    /\ b_i[q] >= 1
    /\ LET w == b_waiters[b_i[q]] IN
         /\ DuplexWaiter_Close(w)
         /\ b_w' = [b_w EXCEPT ![q] = w]
         /\ b_sigLog' = IF w_c[w] THEN b_sigLog ELSE Append(b_sigLog, w)
    /\ b_pc' = [b_pc EXCEPT ![q] = "waitdone"]
    /\ UNCHANGED <<b_struct, b_i, b_nextW, b_snap, b_hsLog, b_lastNew, b_calls,
                   w_d, w_ronce, w_dCloses, w_pc, w_doneBy, w_cawdDone, w_obs>>

\* Faulty variant of Broadcaster_close_WaitDone: b.waiters is not reset after
\* the loop.
Broadcaster_close_WaitDone_KeepWaiters(q) ==
    /\ UNCHANGED b_frame
    /\ b_pc[q] = "waitdone"
    /\ DuplexWaiter_WaitDone(b_w[q])
    /\ b_hsLog' = Append(b_hsLog, b_w[q])
    /\ b_w' = [b_w EXCEPT ![q] = Empty]
    /\ b_i' = [b_i EXCEPT ![q] = b_i[q] - 1]
    /\ IF b_i[q] > 1
       THEN /\ b_pc' = [b_pc EXCEPT ![q] = "close"]
            /\ UNCHANGED b_mutex
       ELSE /\ b_pc' = [b_pc EXCEPT ![q] = "idle"]
            /\ b_mutex' = 0
    /\ UNCHANGED <<b_waiters, b_closed, b_nextW, b_snap, b_sigLog, b_lastNew,
                   b_calls, w_vars>>

\* Faulty variant of Broadcaster_close_WaitDone: the walk goes on without
\* waiting for the receipt of the waiter it has signaled.
Broadcaster_close_WaitDone_NoWait(q) ==
    /\ UNCHANGED b_frame
    /\ b_pc[q] = "waitdone"
    /\ b_hsLog' = Append(b_hsLog, b_w[q])
    /\ b_w' = [b_w EXCEPT ![q] = Empty]
    /\ b_i' = [b_i EXCEPT ![q] = b_i[q] - 1]
    /\ IF b_i[q] > 1
       THEN /\ b_pc' = [b_pc EXCEPT ![q] = "close"]
            /\ UNCHANGED <<b_waiters, b_mutex>>
       ELSE /\ b_pc' = [b_pc EXCEPT ![q] = "idle"]
            /\ b_waiters' = <<>>
            /\ b_mutex' = 0
    /\ UNCHANGED <<b_closed, b_nextW, b_snap, b_sigLog, b_lastNew, b_calls,
                   w_vars>>

\* Faulty variant of Broadcaster_close_WaitDone: the loop index is not
\* decremented, and the walk never leaves its first waiter.
Broadcaster_close_WaitDone_NoDecrement(q) ==
    /\ UNCHANGED b_frame
    /\ b_pc[q] = "waitdone"
    /\ DuplexWaiter_WaitDone(b_w[q])
    /\ b_w' = [b_w EXCEPT ![q] = Empty]
    /\ b_pc' = [b_pc EXCEPT ![q] = "close"]
    /\ UNCHANGED <<b_waiters, b_mutex, b_i, b_hsLog, b_closed, b_nextW, b_snap,
                   b_sigLog, b_lastNew, b_calls, w_vars>>

\* The loop body, second half: w.WaitDone() completes, CloseAndWaitDone
\* returns, i--; after the last waiter b.waiters = nil and the caller's
\* deferred unlock runs.
Broadcaster_close_WaitDone(q) ==
    /\ UNCHANGED b_frame
    /\ b_pc[q] = "waitdone"
    /\ DuplexWaiter_WaitDone(b_w[q])
    /\ b_hsLog' = Append(b_hsLog, b_w[q])
    /\ b_w' = [b_w EXCEPT ![q] = Empty]
    /\ b_i' = [b_i EXCEPT ![q] = b_i[q] - 1]
    /\ IF b_i[q] > 1
       THEN /\ b_pc' = [b_pc EXCEPT ![q] = "close"]
            /\ UNCHANGED <<b_waiters, b_mutex>>
       ELSE /\ b_pc' = [b_pc EXCEPT ![q] = "idle"]
            /\ b_waiters' = <<>>
            /\ b_mutex' = 0
    /\ UNCHANGED <<b_closed, b_nextW, b_snap, b_sigLog, b_lastNew, b_calls,
                   w_vars>>

\* The goroutine holding waiter w (handed out by NewWaiter) calls w.Done().
Holder_Done(w) ==
    /\ UNCHANGED b_frame
    /\ w \in 1..(b_nextW - 1)
    /\ ReceiptableWaiter_Done(w)
    /\ UNCHANGED <<w_c, w_once, w_cCloses, w_pc, w_doneBy, w_cawdDone, w_obs,
                   b_vars>>

BNext ==
    \/ \E q \in BProcs : Broadcaster_NewWaiter(q)
    \/ \E q \in BProcs : Broadcaster_Broadcast(q)
    \/ \E q \in BProcs : Broadcaster_Close(q)
    \/ \E q \in BProcs : Broadcaster_close_Close(q)
    \/ \E q \in BProcs : Broadcaster_close_WaitDone(q)
    \/ \E w \in Waiters : Holder_Done(w)

\* --------------------------------------------------------- closeable waiter
\* The sources define NewCloseableWaiter twice: as a *closeableWaiter, whose
\* Close is w.once.Do(w.close), and as a *channelCloseableWaiter (waiter.go),
\* whose Close is channelWaiter.close: messageOnce.Do(closeMessageChan), then
\* <-w.receiptChan.
CloseableImpls == {"closeableWaiter", "channelCloseableWaiter"}

CInit ==
    /\ c_impl = "none"
    /\ c_msg = FALSE
    /\ c_receipt = FALSE
    /\ c_once = FALSE
    /\ c_receiptOnce = FALSE
    /\ c_pc = [p \in CProcs |-> "idle"]

\* NewCloseableWaiter(): whichever definition the build holds.
NewCloseableWaiter ==
    /\ UNCHANGED c_frame
    /\ c_impl = "none"
    /\ c_impl' \in CloseableImpls
    /\ UNCHANGED <<c_msg, c_receipt, c_once, c_receiptOnce, c_pc>>

\* A goroutine calls Close(): the signal channel is closed behind the Once;
\* the *closeableWaiter returns, the *channelCloseableWaiter goes on to
\* <-w.receiptChan.
CloseableWaiter_Close(p) ==
    /\ UNCHANGED c_frame
    /\ c_impl \in CloseableImpls
    /\ c_pc[p] = "idle"
    /\ c_once' = TRUE
    /\ c_msg' = TRUE
    /\ c_pc' = [c_pc EXCEPT ![p] =
                   IF c_impl = "closeableWaiter" THEN "idle" ELSE "close"]
    /\ UNCHANGED <<c_impl, c_receipt, c_receiptOnce>>

\* <-w.receiptChan completes and Close returns (waiter.go).
ChannelWaiter_close_Return(p) ==
    /\ UNCHANGED c_frame
    /\ c_pc[p] = "close"
    /\ c_receipt
    /\ c_pc' = [c_pc EXCEPT ![p] = "idle"]
    /\ UNCHANGED <<c_impl, c_msg, c_receipt, c_once, c_receiptOnce>>

\* A goroutine calls Done(), which only the Waiter of waiter.go has:
\* w.receiptOnce.Do(w.closeReceiptChan).
ChannelWaiter_Done(p) ==
    /\ UNCHANGED c_frame
    /\ c_impl = "channelCloseableWaiter"
    /\ c_pc[p] = "idle"
    /\ c_receiptOnce' = TRUE
    /\ c_receipt' = TRUE
    /\ UNCHANGED <<c_impl, c_msg, c_once, c_pc>>

\* A goroutine calls Wait() (or receives from Channel()) and blocks.
C_Wait_Call(p) ==
    /\ UNCHANGED c_frame
    /\ c_impl \in CloseableImpls
    /\ c_pc[p] = "idle"
    /\ c_pc' = [c_pc EXCEPT ![p] = "Wait"]
    /\ UNCHANGED <<c_impl, c_msg, c_receipt, c_once, c_receiptOnce>>

\* Its receive from the signal channel completes.
C_Wait_Return(p) ==
    /\ UNCHANGED c_frame
    /\ c_pc[p] = "Wait"
    /\ c_msg
    /\ c_pc' = [c_pc EXCEPT ![p] = "idle"]
    /\ UNCHANGED <<c_impl, c_msg, c_receipt, c_once, c_receiptOnce>>

CNext ==
    \/ NewCloseableWaiter
    \/ \E p \in CProcs : CloseableWaiter_Close(p)
    \/ \E p \in CProcs : ChannelWaiter_close_Return(p)
    \/ \E p \in CProcs : ChannelWaiter_Done(p)
    \/ \E p \in CProcs : C_Wait_Call(p)
    \/ \E p \in CProcs : C_Wait_Return(p)

\* ---------------------------------------------------------------- WaitQueue
\* The arguments Release is called with: a negative number, none, some, all,
\* more than all.
ReleaseArgs == (0 - 1)..(MaxWaiters + 1)

\* A return of Release, ReleaseAll or Len: op the method, n the argument (0 for
\* ReleaseAll and Len), m the length of wq.queue it found, ret what it returned,
\* left wq.queue as it left it.
QReturn(op, n, m, ret, left) ==
    [op |-> op, n |-> n, m |-> m, ret |-> ret, left |-> left]

\* q_released after a release has returned k (kept within 0..MaxWaiters + 1).
Released(k) ==
    IF q_released + k > MaxWaiters THEN MaxWaiters + 1
    ELSE IF q_released + k < 0 THEN 0
    ELSE q_released + k

QInit ==
    /\ q_mutex = 0
    /\ q_queue = <<>>
    /\ q_kind = [w \in Waiters |-> "none"]
    /\ q_pc = [p \in QProcs |-> "idle"]
    /\ q_n = [p \in QProcs |-> 0]
    /\ q_i = [p \in QProcs |-> 0]
    /\ q_w = [p \in QProcs |-> Empty]
    /\ q_nextW = 1
    /\ q_snap = <<>>
    /\ q_relLog = <<>>
    /\ q_last = QReturn("none", 0, 0, 0, <<>>)
    /\ q_released = 0

\* func (wq *waitQueue) NewWaiter(): under the lock, a new closeable waiter is
\* appended to wq.queue.
WaitQueue_NewWaiter(p) ==
    /\ UNCHANGED q_frame
    /\ q_pc[p] = "idle"
    /\ q_mutex = 0
    /\ q_nextW <= MaxWaiters
    /\ q_queue' = Append(q_queue, q_nextW)
    /\ q_kind' = [q_kind EXCEPT ![q_nextW] = "closeable"]
    /\ q_nextW' = q_nextW + 1
    /\ UNCHANGED <<q_mutex, q_locals, q_snap, q_relLog, q_last, q_released, w_vars>>

\* func (wq *waitQueue) NewReceiptableWaiter(): under the lock, a new duplex
\* waiter is appended as CloseableFunc(w.CloseAndWaitDone).
WaitQueue_NewReceiptableWaiter(p) ==
    /\ UNCHANGED q_frame
    /\ q_pc[p] = "idle"
    /\ q_mutex = 0
    /\ q_nextW <= MaxWaiters
    /\ q_queue' = Append(q_queue, q_nextW)
    /\ q_kind' = [q_kind EXCEPT ![q_nextW] = "receiptable"]
    /\ q_nextW' = q_nextW + 1
    /\ UNCHANGED <<q_mutex, q_locals, q_snap, q_relLog, q_last, q_released, w_vars>>

\* func (wq *waitQueue) Len(): wq.mutex.Lock(); n = len(wq.queue);
\* wq.mutex.Unlock(); return.
WaitQueue_Len(p) ==
    /\ UNCHANGED q_frame
    /\ q_pc[p] = "idle"
    /\ q_mutex = 0
    /\ q_last' = QReturn("Len", 0, Len(q_queue), Len(q_queue), q_queue)
    /\ UNCHANGED q_released
    /\ UNCHANGED <<q_struct, q_locals, q_nextW, q_snap, q_relLog, w_vars>>

\* Faulty variant of WaitQueue_Release: where there is nothing to release the
\* argument is returned.
WaitQueue_Release_ReturnsArg(p) ==
    /\ UNCHANGED q_frame
    /\ q_pc[p] = "idle"
    /\ q_mutex = 0
    /\ q_snap' = q_queue
    /\ q_relLog' = <<>>
    /\ \E n \in ReleaseArgs :
         IF Len(q_queue) > 0 /\ n > 0
         THEN /\ q_mutex' = p
              /\ q_pc' = [q_pc EXCEPT ![p] = "release"]
              /\ q_n' = [q_n EXCEPT ![p] = n]
              /\ q_i' = [q_i EXCEPT ![p] = 0]
              /\ UNCHANGED <<q_last, q_released>>
         ELSE /\ q_last' = QReturn("Release", n, Len(q_queue), n, q_queue)
              /\ q_released' = Released(n)
              /\ UNCHANGED <<q_mutex, q_pc, q_n, q_i>>
    /\ UNCHANGED <<q_queue, q_kind, q_w, q_nextW, w_vars>>

\* func (wq *waitQueue) Release(n), up to the loop: wq.mutex.Lock();
\* if m := len(wq.queue); m > 0 && n > 0 { i := 0; ... } else return 0.
WaitQueue_Release(p) ==
    /\ UNCHANGED q_frame
    /\ q_pc[p] = "idle"
    /\ q_mutex = 0
    /\ q_snap' = q_queue
    /\ q_relLog' = <<>>
    /\ \E n \in ReleaseArgs :
         IF Len(q_queue) > 0 /\ n > 0
         THEN /\ q_mutex' = p
              /\ q_pc' = [q_pc EXCEPT ![p] = "release"]
              /\ q_n' = [q_n EXCEPT ![p] = n]
              /\ q_i' = [q_i EXCEPT ![p] = 0]
              /\ UNCHANGED <<q_last, q_released>>
         ELSE /\ q_last' = QReturn("Release", n, Len(q_queue), 0, q_queue)
              /\ q_released' = Released(0)
              /\ UNCHANGED <<q_mutex, q_pc, q_n, q_i>>
    /\ UNCHANGED <<q_queue, q_kind, q_w, q_nextW, w_vars>>

\* func (wq *waitQueue) ReleaseAll(), up to the loop: wq.mutex.Lock();
\* if n = len(wq.queue); n > 0 { i := 0; ... } else return n.
WaitQueue_ReleaseAll(p) ==
    /\ UNCHANGED q_frame
    /\ q_pc[p] = "idle"
    /\ q_mutex = 0
    /\ q_snap' = q_queue
    /\ q_relLog' = <<>>
    /\ IF Len(q_queue) > 0
       THEN /\ q_mutex' = p
            /\ q_pc' = [q_pc EXCEPT ![p] = "releaseAll"]
            /\ q_n' = [q_n EXCEPT ![p] = Len(q_queue)]
            /\ q_i' = [q_i EXCEPT ![p] = 0]
            /\ UNCHANGED <<q_last, q_released>>
       ELSE /\ q_last' = QReturn("ReleaseAll", 0, 0, 0, q_queue)
            /\ q_released' = Released(0)
            /\ UNCHANGED <<q_mutex, q_pc, q_n, q_i>>
    /\ UNCHANGED <<q_queue, q_kind, q_w, q_nextW, w_vars>>

\* Faulty variant of WaitQueue_Close: the loop releases from the tail of the
\* queue.
WaitQueue_Close_NewestFirst(p) ==
    /\ UNCHANGED q_frame
    /\ q_pc[p] \in {"release", "releaseAll"}
    /\ q_w[p] = Empty
    /\ q_i[p] < Len(q_queue)
    /\ q_i[p] < q_n[p]
    /\ LET w == q_queue[Len(q_queue) - q_i[p]] IN
         /\ DuplexWaiter_Close(w)
         /\ q_relLog' = Append(q_relLog, w)
         /\ IF q_kind[w] = "receiptable"
            THEN /\ q_w' = [q_w EXCEPT ![p] = w]
                 /\ UNCHANGED q_i
            ELSE /\ q_i' = [q_i EXCEPT ![p] = q_i[p] + 1]
                 /\ UNCHANGED q_w
    /\ UNCHANGED <<q_struct, q_pc, q_n, q_nextW, q_snap, q_last, q_released,
                   w_d, w_ronce, w_dCloses, w_pc, w_doneBy, w_cawdDone, w_obs>>

\* One iteration of either loop: wq.queue[i].Close().  A closeable waiter's
\* Close raises the signal and returns; a receiptable entry's Close is
\* w.CloseAndWaitDone, which raises the signal and then waits for the receipt.
WaitQueue_Close(p) ==
    /\ UNCHANGED q_frame
    /\ q_pc[p] \in {"release", "releaseAll"}
    /\ q_w[p] = Empty
    /\ q_i[p] < Len(q_queue)
    /\ q_i[p] < q_n[p]
    /\ LET w == q_queue[q_i[p] + 1] IN
         /\ DuplexWaiter_Close(w)
         /\ q_relLog' = Append(q_relLog, w)
         /\ IF q_kind[w] = "receiptable"
            THEN /\ q_w' = [q_w EXCEPT ![p] = w]
                 /\ UNCHANGED q_i
            ELSE /\ q_i' = [q_i EXCEPT ![p] = q_i[p] + 1]
                 /\ UNCHANGED q_w
    /\ UNCHANGED <<q_struct, q_pc, q_n, q_nextW, q_snap, q_last, q_released,
                   w_d, w_ronce, w_dCloses, w_pc, w_doneBy, w_cawdDone, w_obs>>

\* Faulty variant of WaitQueue_WaitDone: the loop goes on without the receipt.
WaitQueue_WaitDone_NoWait(p) ==
    /\ UNCHANGED q_frame
    /\ q_pc[p] \in {"release", "releaseAll"}
    /\ q_w[p] # Empty
    /\ q_w' = [q_w EXCEPT ![p] = Empty]
    /\ q_i' = [q_i EXCEPT ![p] = q_i[p] + 1]
    /\ UNCHANGED <<q_struct, q_pc, q_n, q_hist, w_vars>>

\* The w.WaitDone() of a receiptable entry's CloseAndWaitDone completes; i++.
WaitQueue_WaitDone(p) ==
    /\ UNCHANGED q_frame
    /\ q_pc[p] \in {"release", "releaseAll"}
    /\ q_w[p] # Empty
    /\ DuplexWaiter_WaitDone(q_w[p])
    /\ q_w' = [q_w EXCEPT ![p] = Empty]
    /\ q_i' = [q_i EXCEPT ![p] = q_i[p] + 1]
    /\ UNCHANGED <<q_struct, q_pc, q_n, q_hist, w_vars>>

\* Faulty variant of WaitQueue_Release_Return: wq.queue is reset whatever n is,
\* so that waiters that were not signaled leave the queue too.
WaitQueue_Release_Return_ClearsQueue(p) ==
    /\ UNCHANGED q_frame
    /\ q_pc[p] = "release"
    /\ q_w[p] = Empty
    /\ ~(q_i[p] < Len(q_queue) /\ q_i[p] < q_n[p])
    /\ q_queue' = <<>>
    /\ q_last' = QReturn("Release", q_n[p], Len(q_queue), Len(q_queue), <<>>)
    /\ q_released' = Released(Len(q_queue))
    /\ q_mutex' = 0
    /\ q_pc' = [q_pc EXCEPT ![p] = "idle"]
    /\ q_n' = [q_n EXCEPT ![p] = 0]
    /\ q_i' = [q_i EXCEPT ![p] = 0]
    /\ UNCHANGED <<q_kind, q_w, q_nextW, q_snap, q_relLog, w_vars>>

\* Release after its loop: if n >= m { wq.queue = nil } else { wq.queue =
\* copy of wq.queue[n:] }; return m - len(wq.queue) (with the deferred unlock).
WaitQueue_Release_Return(p) ==
    /\ UNCHANGED q_frame
    /\ q_pc[p] = "release"
    /\ q_w[p] = Empty
    /\ ~(q_i[p] < Len(q_queue) /\ q_i[p] < q_n[p])
    /\ LET m == Len(q_queue)
           left == IF q_n[p] >= m THEN <<>> ELSE SubSeq(q_queue, q_n[p] + 1, m)
       IN /\ q_queue' = left
          /\ q_last' = QReturn("Release", q_n[p], m, m - Len(left), left)
          /\ q_released' = Released(m - Len(left))
    /\ q_mutex' = 0
    /\ q_pc' = [q_pc EXCEPT ![p] = "idle"]
    /\ q_n' = [q_n EXCEPT ![p] = 0]
    /\ q_i' = [q_i EXCEPT ![p] = 0]
    /\ UNCHANGED <<q_kind, q_w, q_nextW, q_snap, q_relLog, w_vars>>

\* Faulty variant of WaitQueue_ReleaseAll_Return: wq.queue is not reset.
WaitQueue_ReleaseAll_Return_KeepQueue(p) ==
    /\ UNCHANGED q_frame
    /\ q_pc[p] = "releaseAll"
    /\ q_w[p] = Empty
    /\ ~(q_i[p] < q_n[p])
    /\ q_last' = QReturn("ReleaseAll", 0, Len(q_queue), q_n[p], q_queue)
    /\ q_released' = Released(q_n[p])
    /\ q_mutex' = 0
    /\ q_pc' = [q_pc EXCEPT ![p] = "idle"]
    /\ q_n' = [q_n EXCEPT ![p] = 0]
    /\ q_i' = [q_i EXCEPT ![p] = 0]
    /\ UNCHANGED <<q_queue, q_kind, q_w, q_nextW, q_snap, q_relLog, w_vars>>

\* ReleaseAll after its loop: wq.queue = nil; return n (with the deferred
\* unlock).
WaitQueue_ReleaseAll_Return(p) ==
    /\ UNCHANGED q_frame
    /\ q_pc[p] = "releaseAll"
    /\ q_w[p] = Empty
    /\ ~(q_i[p] < q_n[p])
    /\ q_queue' = <<>>
    /\ q_last' = QReturn("ReleaseAll", 0, Len(q_queue), q_n[p], <<>>)
    /\ q_released' = Released(q_n[p])
    /\ q_mutex' = 0
    /\ q_pc' = [q_pc EXCEPT ![p] = "idle"]
    /\ q_n' = [q_n EXCEPT ![p] = 0]
    /\ q_i' = [q_i EXCEPT ![p] = 0]
    /\ UNCHANGED <<q_kind, q_w, q_nextW, q_snap, q_relLog, w_vars>>

\* The goroutine holding the receiptable waiter w calls w.Done().
QHolder_Done(w) ==
    /\ UNCHANGED q_frame
    /\ q_kind[w] = "receiptable"
    /\ ReceiptableWaiter_Done(w)
    /\ UNCHANGED <<w_c, w_once, w_cCloses, w_pc, w_doneBy, w_cawdDone, w_obs,
                   q_vars>>

QNext ==
    \/ \E p \in QProcs : WaitQueue_NewWaiter(p)
    \/ \E p \in QProcs : WaitQueue_NewReceiptableWaiter(p)
    \/ \E p \in QProcs : WaitQueue_Len(p)
    \/ \E p \in QProcs : WaitQueue_Release(p)
    \/ \E p \in QProcs : WaitQueue_ReleaseAll(p)
    \/ \E p \in QProcs : WaitQueue_Close(p)
    \/ \E p \in QProcs : WaitQueue_WaitDone(p)
    \/ \E p \in QProcs : WaitQueue_Release_Return(p)
    \/ \E p \in QProcs : WaitQueue_ReleaseAll_Return(p)
    \/ \E w \in Waiters : QHolder_Done(w)

\* ------------------------------------------------------------- empty waiter
EInit ==
    /\ e_pc = [p \in EProcs |-> "idle"]
    /\ e_waits = 0
    /\ e_recvs = 0
    /\ e_dones = 0

\* A goroutine calls EmptyReceiptableWaiter().Wait().
E_Wait_Call(p) ==
    /\ UNCHANGED e_frame
    /\ e_pc[p] = "idle"
    /\ e_pc' = [e_pc EXCEPT ![p] = "Wait"]
    /\ UNCHANGED <<e_waits, e_recvs, e_dones>>

\* The Wait returns.
E_Wait_Return(p) ==
    /\ UNCHANGED e_frame
    /\ e_pc[p] = "Wait"
    /\ Waiter_Wait(Empty)
    /\ e_pc' = [e_pc EXCEPT ![p] = "idle"]
    /\ e_waits' = IF e_waits < 2 THEN e_waits + 1 ELSE 2
    /\ UNCHANGED <<e_recvs, e_dones>>

\* A goroutine calls Channel() and starts a receive from the channel returned.
E_Channel_Call(p) ==
    /\ UNCHANGED e_frame
    /\ e_pc[p] = "idle"
    /\ e_pc' = [e_pc EXCEPT ![p] = "Channel"]
    /\ UNCHANGED <<e_waits, e_recvs, e_dones>>

\* Its receive completes.
E_Channel_Receive(p) ==
    /\ UNCHANGED e_frame
    /\ e_pc[p] = "Channel"
    /\ Waiter_Channel(Empty)
    /\ e_pc' = [e_pc EXCEPT ![p] = "idle"]
    /\ e_recvs' = IF e_recvs < 2 THEN e_recvs + 1 ELSE 2
    /\ UNCHANGED <<e_waits, e_dones>>

\* A goroutine calls Done(): an empty function.
E_Done(p) ==
    /\ UNCHANGED e_frame
    /\ e_pc[p] = "idle"
    /\ e_dones' = IF e_dones < 2 THEN e_dones + 1 ELSE 2
    /\ UNCHANGED <<e_pc, e_waits, e_recvs>>

ENext ==
    \/ \E p \in EProcs : E_Wait_Call(p)
    \/ \E p \in EProcs : E_Wait_Return(p)
    \/ \E p \in EProcs : E_Channel_Call(p)
    \/ \E p \in EProcs : E_Channel_Receive(p)
    \/ \E p \in EProcs : E_Done(p)

\* --------------------------------------------------- SafeCall and MustCall
\* The values recover() can return: a panic value of the function, or for
\* panic(nil) either nil or a *runtime.PanicNilError, as the runtime decides.
KPayloads == {NilValue, PanicNilError, TestPayload}

\* The errors a function can return, the results of SafeCall among them.
KErrors ==
    {NilErr, PlainErr(1), ErrExited, ErrorsOf(<<PlainErr(1), PlainErr(2)>>)}
        \cup {PanicError(v) : v \in KPayloads}

\* The functions given to SafeCall and MustCall.
KBehaviours == {Returns(e) : e \in KErrors} \cup {Panics(v) : v \in KPayloads}

\* A call op(f) and what came of it.
KCall(op, f, out) == [op |-> op, f |-> f, out |-> out]

KInit == k_call = [p \in KProcs |-> KCall("none", Returns(NilErr), Outcome(FALSE, NilErr))]

\* err := SafeCall(f)
K_SafeCall(p) ==
    /\ UNCHANGED k_frame
    /\ \E f \in KBehaviours :
         k_call' = [k_call EXCEPT ![p] = KCall("SafeCall", f, Outcome(FALSE, SafeCall(f)))]

\* MustCall(f)
K_MustCall(p) ==
    /\ UNCHANGED k_frame
    /\ \E f \in KBehaviours :
         k_call' = [k_call EXCEPT ![p] = KCall("MustCall", f, MustCall(f))]

KNext ==
    \/ \E p \in KProcs : K_SafeCall(p)
    \/ \E p \in KProcs : K_MustCall(p)

\* ------------------------------------------------------------------ Errors
\* The arguments of Add: nil, errors of other types, an empty *Errors, one
\* with two elements, and an *Errors that holds what the collection itself
\* holds.
XArgs(errs) ==
    {NilErr, PlainErr(1), PlainErr(2), PanicError(TestPayload),
     ErrorsOf(<<>>), ErrorsOf(<<PlainErr(3), PlainErr(4)>>), ErrorsOf(errs)}

\* What the four readers returned.
XRead(len, first, last, all) ==
    [len |-> len, first |-> first, last |-> last, all |-> all]

NoRead == XRead(0 - 1, Pending, Pending, <<>>)

\* errs := new(Errors)
XInit ==
    /\ x_errs = <<>>
    /\ x_added = <<>>
    /\ x_read = NoRead

\* errs.Add(err)
X_Add ==
    /\ UNCHANGED x_frame
    /\ Len(x_added) < MaxAdds
    /\ \E err \in XArgs(x_errs) :
         /\ x_errs' = Errors_Add(x_errs, err)
         /\ x_added' = Append(x_added, err)
    /\ x_read' = NoRead

\* errs.Len(), errs.First(), errs.Last(), errs.All()
X_Read ==
    /\ UNCHANGED x_frame
    /\ x_read' = XRead(Errors_Len(x_errs), Errors_First(x_errs),
                       Errors_Last(x_errs), Errors_All(x_errs))
    /\ UNCHANGED <<x_errs, x_added>>

XNext ==
    \/ X_Add
    \/ X_Read

\* ----------------------------------------------------------- specifications
Init == RInit /\ WInit /\ BInit /\ CInit /\ QInit /\ EInit /\ KInit /\ XInit

SpecRunner == Init /\ [][RNext]_vars

SpecWaiter == Init /\ [][WNext]_vars

SpecBroadcaster == Init /\ [][BNext]_vars

\* The Broadcaster with a scheduler that lets a goroutine inside a walk take
\* its next step when that step is possible.
SpecBroadcasterFair ==
    /\ Init
    /\ [][BNext]_vars
    /\ \A q \in BProcs : WF_vars(Broadcaster_close_Close(q))
    /\ \A q \in BProcs : WF_vars(Broadcaster_close_WaitDone(q))

SpecCloseable == Init /\ [][CNext]_vars

SpecWaitQueue == Init /\ [][QNext]_vars

SpecEmptyWaiter == Init /\ [][ENext]_vars

SpecCaller == Init /\ [][KNext]_vars

SpecErrors == Init /\ [][XNext]_vars

\* The waiter with the scheduler's guarantee: a goroutine whose receive from c
\* can complete is eventually run.
SpecWaiterFair ==
    /\ Init
    /\ [][WNext]_vars
    /\ \A p \in WProcs : WF_vars(W_Wait_Return(p))

\* ------------------------------------------------------- auxiliary operators
Range(s) == { s[k] : k \in 1..Len(s) }

Min(a, b) == IF a <= b THEN a ELSE b

Reverse(s) == [k \in 1..Len(s) |-> s[Len(s) + 1 - k]]

Count(x, s) == Cardinality({ k \in 1..Len(s) : s[k] = x })

Walking(p) == r_pc[p] \in {"exit_walk", "waitby_walk"}

\* Goroutine p is between the Lock and the Unlock of a Run or of an Exit.
InCritical(p) == r_pc[p] \in {"run_exec", "exit_walk", "waitby_walk"}

\* The failures among the results of the Shutdown calls, in call order.
Failures == SelectSeq(r_shutOut, LAMBDA e : e # NilErr)

\* The results of the Shutdown calls with every *Errors replaced by its
\* elements and every nil dropped, in call order.
RECURSIVE Flat(_)
Flat(s) ==
    IF Len(s) = 0 THEN <<>>
    ELSE (IF s[1].k = "nil" THEN <<>>
          ELSE IF s[1].k = "errors" THEN s[1].errs
          ELSE <<s[1]>>) \o Flat(Tail(s))

\* The most recent return is that of the first invocation of Exit to return
\* (called directly or from WaitBy).
FirstExitReturned ==
    /\ r_last.op \in {"Exit", "WaitBy"}
    /\ r_last.via # "exit"
    /\ ~r_last.late

\* ------------------------------------------- Broadcaster and waiter: claims

\* C1: Broadcast (and Close) raises the signals of the waiters it finds, and
\* completes their handshakes, in strict reverse creation order, one waiter
\* at a time: the signals raised and the handshakes completed so far are
\* prefixes of the reversed waiter list, the walk is at most one signal ahead
\* of the handshakes, a finished walk has covered the whole list, and no
\* waiter's signal is raised before the receipt of every later-created waiter
\* of the list has been raised.
Thm_C1_BroadcastReverseOrder ==
    LET rev == Reverse(b_snap) IN
    /\ Len(b_sigLog) <= Len(rev)
    /\ b_sigLog = SubSeq(rev, 1, Len(b_sigLog))
    /\ Len(b_hsLog) <= Len(b_sigLog)
    /\ Len(b_sigLog) <= Len(b_hsLog) + 1
    /\ b_hsLog = SubSeq(rev, 1, Len(b_hsLog))
    /\ ((\A q \in BProcs : b_pc[q] = "idle") => b_hsLog = rev /\ b_sigLog = rev)
    /\ \A k, j \in 1..Len(b_snap) :
         k < j /\ w_c[b_snap[k]] => w_d[b_snap[j]]

\* A Broadcast over three waiters has returned on a broadcaster still open.
Wit_C1 ==
    /\ \A q \in BProcs : b_pc[q] = "idle"
    /\ Len(b_snap) = 3
    /\ b_hsLog = Reverse(b_snap)
    /\ ~b_closed

\* C2: once a CloseAndWaitDone has returned, Done has been called on the
\* waiter (on it or on its Waiter() view) and the receipt channel is closed.
Thm_C2_HandshakeWaitsForDone ==
    w_cawdDone => w_d[Standalone] /\ w_doneBy # {}

\* A CloseAndWaitDone has returned after Done was called through the Waiter()
\* view only.
Wit_C2 ==
    /\ w_cawdDone
    /\ w_doneBy = {"Waiter()"}

\* ---------------------------------------------------------- Runner: claims

\* C3: after Run succeeded on T1..Tn in that order, Exit calls Shutdown in the
\* order Tn..T1: while the loop runs the calls made so far are the reverse of
\* the tail of r.tasks behind the index, and once an Exit has returned they
\* are the reverse of the whole registration order, whatever each Shutdown
\* returned.
Thm_C3_ShutdownReverseOrder ==
    /\ Len(r_shutOut) = Len(r_shutLog)
    /\ \A p \in RProcs :
         Walking(p) =>
           r_shutLog = Reverse(SubSeq(r_tasks, r_i[p] + 1, Len(r_tasks)))
    /\ (r_exits > 0 => r_shutLog = Reverse(r_trackLog))

\* Three tasks were run and registered, Exit has returned, and the Shutdown of
\* the second one registered (the second called) failed.
Wit_C3 ==
    /\ r_exits > 0
    /\ Len(r_trackLog) = 3
    /\ Len(r_shutLog) = 3
    /\ r_shutOut[2] # NilErr

\* C4: every task that entered the tracked set receives exactly one Shutdown
\* call: never two, and never zero once an Exit has completed.
Thm_C4_ExactlyOneShutdown ==
    /\ \A t \in TaskIds : Count(t, r_shutLog) <= 1
    /\ (r_exits > 0 => \A t \in Range(r_trackLog) : Count(t, r_shutLog) = 1)

\* Two invocations of Exit have returned on a runner that tracked two tasks or
\* more, while another goroutine is inside WaitBy.
Wit_C4 ==
    /\ r_exits = 2
    /\ Len(r_trackLog) >= 2
    /\ \E p \in RProcs : r_pc[p] \in {"waitby_select", "waitby_exit"}

Thm_C6_ExitIdempotent ==
    /\ ~r_lateShut
    /\ (r_last.op \in {"Exit", "WaitBy"} /\ r_last.via # "exit" /\ r_last.late
          => r_last.ret = NilErr)

\* A second Exit has returned after a first one whose walk met a failing
\* Shutdown.
Wit_C6 ==
    /\ r_last.op = "Exit"
    /\ r_last.late
    /\ \E k \in 1..Len(r_shutOut) : r_shutOut[k].k = "err"

\* C7: r.chanExit is closed at most once.
Thm_C7_ExitSignalClosedOnce == r_closes <= 1

\* Two invocations of Exit have returned, the later one made from WaitBy.
Wit_C7 ==
    /\ r_exits = 2
    /\ r_closes = 1
    /\ r_last.op = "WaitBy"
    /\ r_last.via = "c"

\* C8: a Run on an exited runner returns ErrExited, does not call Execute and
\* does not track the task.
Thm_C8_RunAfterExit ==
    /\ \A p \in RProcs : r_pc[p] = "run_exec" => ~Exited
    /\ (r_last.op = "Run" /\ r_last.late =>
          /\ r_last.ret = ErrExited
          /\ r_last.task \notin r_executed
          /\ r_last.task \notin Range(r_tasks) \cup Range(r_trackLog))

\* A Run has returned ErrExited on a runner that had tracked and shut down a task.
Wit_C8 ==
    /\ r_last.op = "Run"
    /\ r_last.late
    /\ r_last.ret = ErrExited
    /\ r_shutLog # <<>>

\* C9 as stated: the first Exit to return gives nil if no Shutdown failed, the
\* single error itself if exactly one Shutdown failed, and an aggregate of
\* every failure in call order if more than one failed.
Orig_C9_ExitResult ==
    FirstExitReturned =>
      r_last.ret = (IF Len(Failures) = 0 THEN NilErr
                    ELSE IF Len(Failures) = 1 THEN Failures[1]
                    ELSE ErrorsOf(Failures))

\* C9 as amended: the same over the flattened failures, where a Shutdown
\* result that is itself an *Errors counts as its elements (none, if empty).
Thm_C9_ExitResultFlattened ==
    FirstExitReturned =>
      r_last.ret = (IF Len(Flat(r_shutOut)) = 0 THEN NilErr
                    ELSE IF Len(Flat(r_shutOut)) = 1 THEN Flat(r_shutOut)[1]
                    ELSE ErrorsOf(Flat(r_shutOut)))

\* The first Exit returned an aggregate of three errors gathered from two
\* failing Shutdown calls, one of which returned an *Errors of two.
Wit_C9 ==
    /\ FirstExitReturned
    /\ r_last.ret.k = "errors"
    /\ Len(r_last.ret.errs) = 3
    /\ Len(Failures) = 2

\* C10: WaitBy(c) leaves its select only when c has fired or r.chanExit is
\* closed (an Exit has returned); through c it returns what Exit returns, and
\* through r.chanExit it returns nil, which is what Exit returns then (nothing
\* is tracked any more).
Thm_C10_WaitByBlocks ==
    /\ \A p \in RProcs : r_pc[p] \in {"waitby_exit", "waitby_walk"} => r_ext
    /\ (r_last.op = "WaitBy" /\ r_last.via = "c" => r_ext)
    /\ (r_last.op = "WaitBy" /\ r_last.via = "exit" =>
          /\ r_chanExit
          /\ r_exits > 0
          /\ r_last.ret = NilErr
          /\ r_tasks = <<>>)

\* A WaitBy was released by Exit although c never fired.
Wit_C10 ==
    /\ r_last.op = "WaitBy"
    /\ r_last.via = "exit"
    /\ ~r_ext
    /\ r_shutLog # <<>>

\* C11: Run and Exit exclude each other through r.mutex: at most one goroutine
\* is between the Lock and the Unlock of a Run (its Execute callback) or of an
\* Exit (its shutdown walk), and it holds the mutex; while an Execute runs no
\* Exit can pass its Lock (an Exit called meanwhile, here from WaitBy, waits),
\* and while a walk runs no Run can pass its Lock, so no Execute starts.
Thm_C11_RunExitMutuallyExclusive ==
    /\ Cardinality({ p \in RProcs : InCritical(p) }) <= 1
    /\ \A p \in RProcs : InCritical(p) => r_mutex = p
    /\ (r_mutex = 0 => \A p \in RProcs : ~InCritical(p))
    /\ ((\E p \in RProcs : r_pc[p] = "run_exec") =>
          \A q \in RProcs : ~ENABLED Exit_Enter(q) /\ ~ENABLED Exit_Shutdown(q))
    /\ ((\E p \in RProcs : Walking(p)) =>
          \A q \in RProcs : ~ENABLED Run_Enter(q) /\ ~ENABLED Run_Execute(q))

\* An Execute is running while another goroutine, inside WaitBy after c has
\* fired, has called Exit and waits for the lock, with a task already tracked.
Wit_C11 ==
    /\ \E p, q \in RProcs : r_pc[p] = "run_exec" /\ r_pc[q] = "waitby_exit"
    /\ r_tasks # <<>>

\* --------------------------------------------------- Broadcaster: more claims

\* C12: a NewWaiter that passes its Lock once Close has set b.closed returns
\* the shared empty waiter, whose Wait does not block and whose Channel is
\* closed, and from then on nothing is appended to b.waiters: no waiter is
\* created and the set only stays as the Close found it or becomes empty.
Thm_C12_NewWaiterAfterClose ==
    /\ (b_last.op = "NewWaiter" /\ b_last.closed =>
          /\ b_lastNew = Empty
          /\ Waiter_Wait(b_lastNew)
          /\ Waiter_Channel(b_lastNew))
    /\ (b_closed => b_waiters \in {b_snap, <<>>})
    /\ (b_closed /\ b_mutex = 0 => b_waiters = <<>>)

\* A NewWaiter has returned on a broadcaster whose Close had walked two
\* waiters, with a waiter id still unused.
Wit_C12 ==
    /\ b_last.op = "NewWaiter"
    /\ b_last.closed
    /\ Len(b_snap) = 2
    /\ b_hsLog = Reverse(b_snap)
    /\ b_nextW <= MaxWaiters

\* C13: once a Broadcast has returned the broadcaster is as NewBroadcaster
\* made it: b.waiters is empty, and b.closed is set only if a Close was
\* called.  A NewWaiter on the open broadcaster registers a new waiter whose
\* signal is not raised; a registered waiter's signal is raised only by a walk
\* in progress that found it; and a later walk again raises the signals, and
\* completes the handshakes, of the waiters it found in reverse creation order.
Thm_C13_BroadcastResets ==
    /\ (b_mutex = 0 /\ b_last.op \in {"Broadcast", "Close"} => b_waiters = <<>>)
    /\ (b_closed => b_closeCalled)
    /\ (b_last.op = "NewWaiter" /\ ~b_last.closed =>
          /\ b_lastNew \in Range(b_waiters)
          /\ b_lastNew = b_nextW - 1
          /\ ~w_c[b_lastNew])
    /\ \A w \in Range(b_waiters) :
          w_c[w] => b_mutex # 0 /\ w \in Range(b_sigLog)
    /\ (b_walks = 2 =>
          /\ Len(b_sigLog) <= Len(b_snap)
          /\ b_sigLog = SubSeq(Reverse(b_snap), 1, Len(b_sigLog))
          /\ Len(b_hsLog) <= Len(b_sigLog)
          /\ b_hsLog = SubSeq(Reverse(b_snap), 1, Len(b_hsLog))
          /\ \A k \in 1..(Len(b_snap) - 1) : b_snap[k] < b_snap[k + 1])

\* After a first walk, a second Broadcast has walked two waiters created since
\* and has returned, on a broadcaster that was never closed.
Wit_C13 ==
    /\ b_walks = 2
    /\ b_mutex = 0
    /\ b_last.op = "Broadcast"
    /\ ~b_closeCalled
    /\ Len(b_snap) = 2
    /\ b_hsLog = Reverse(b_snap)

\* ------------------------------------------------------- waiter: more claims

\* C14 as stated: once a CloseAndWaitDone has returned, a holder of the waiter
\* has observed the signal: a receive from c has completed in some goroutine.
Orig_C14_HolderObserved ==
    w_cawdDone => \E p \in WProcs : w_seen[p]

\* C14 as amended: a completed receive from c has seen the signal raised, and
\* once a CloseAndWaitDone has returned the signal and the receipt are raised
\* and Done has been called; if Done was only ever called by goroutines whose
\* receive from c had completed, then some holder has observed the signal
\* before the return.
Thm_C14_HolderObservedIfDoneAfterWait ==
    /\ \A p \in WProcs : w_seen[p] => w_c[Standalone]
    /\ (w_cawdDone =>
          /\ w_c[Standalone]
          /\ w_d[Standalone]
          /\ w_doneBy # {}
          /\ (~w_blind => \E p \in WProcs : w_seen[p]))

\* A CloseAndWaitDone has returned after Done was called, on the Waiter() view
\* only and only by goroutines whose receive from c had completed, while
\* another goroutine has not observed the signal.
Wit_C14 ==
    /\ w_cawdDone
    /\ ~w_blind
    /\ w_doneBy = {"Waiter()"}
    /\ \E p \in WProcs : ~w_seen[p]
    /\ \E p \in WProcs : w_seen[p]

\* C15: the signal and the receipt of a waiter are monotonic: no step takes a
\* closed channel c, or a closed channel d, back to open, so a Wait that could
\* return can still return after any further Close, Done, Wait or WaitDone.
Thm_C15_SignalMonotonic ==
    [][\A w \in Waiters :
         /\ (w_c[w] => w_c'[w])
         /\ (w_d[w] => w_d'[w])
         /\ (Waiter_Wait(w) => Waiter_Wait(w)')]_vars

\* Signal and receipt are raised; a CloseAndWaitDone has returned and another
\* one has called Close again since; Done has been called on both receivers;
\* and a receive from c has completed.
Wit_C15 ==
    /\ w_c[Standalone]
    /\ w_d[Standalone]
    /\ w_cawdDone
    /\ \E p \in WProcs : w_pc[p] = "CloseAndWaitDone"
    /\ w_doneBy = {"self", "Waiter()"}
    /\ \E p \in WProcs : w_seen[p]

\* C16: however many times, and from however many goroutines, Close and Done
\* are called, close(w.c) and close(w.d) each execute at most once on every
\* waiter; on the stand-alone waiter each has executed exactly once as soon as
\* one call was made, never before, and the channels are closed from then on.
Thm_C16_CloseDoneIdempotent ==
    /\ \A w \in Waiters :
          /\ w_cCloses[w] <= 1
          /\ w_dCloses[w] <= 1
          /\ w_c[w] = (w_cCloses[w] = 1)
          /\ w_d[w] = (w_dCloses[w] = 1)
    /\ w_cCloses[Standalone] = (IF w_closeCalled THEN 1 ELSE 0)
    /\ w_dCloses[Standalone] = (IF w_doneBy # {} THEN 1 ELSE 0)

\* Close has been called twice at least, by two goroutines that are both
\* inside CloseAndWaitDone, and Done twice at least, on the waiter and on its
\* Waiter() view.
Wit_C16 ==
    /\ w_closeCalled
    /\ Cardinality({ p \in WProcs : w_pc[p] = "CloseAndWaitDone" }) = 2
    /\ w_doneBy = {"self", "Waiter()"}

\* C17: the signal is a broadcast.  Every goroutine blocked in Wait (or on
\* Channel(), on the waiter or on its Waiter() view: the same channel c) when
\* the signal is raised, or calling Wait after it, is released, whatever the
\* number of observers; and with the signal raised the receive of every
\* goroutine in Wait can complete at once.
Thm_C17_SignalIsBroadcast ==
    /\ \A p \in WProcs :
          (w_pc[p] = "Wait" /\ w_c[Standalone]) ~> (w_pc[p] = "idle" /\ w_seen[p])
    /\ [](\A p \in WProcs :
            w_pc[p] = "Wait" /\ w_c[Standalone] => ENABLED W_Wait_Return(p))

\* Close has released two observers, and a third goroutine is in Wait with the
\* signal raised.
Wit_C17 ==
    /\ w_closeCalled
    /\ Cardinality({ p \in WProcs : w_seen[p] }) = 2
    /\ \E p \in WProcs : w_pc[p] = "Wait" /\ ~w_seen[p]

\* ------------------------------------------------- Broadcaster: concurrency

\* C19: the operations of a Broadcaster exclude each other through b.mutex: at
\* most one goroutine is inside a walk and it holds the mutex; while a walk is
\* in progress no NewWaiter, Broadcast or Close can pass its Lock, b.waiters is
\* the set the walk found, and no waiter has been created since the walk
\* began, so the walk signals the waiters it found and no other.
Thm_C19_BroadcasterMutuallyExclusive ==
    /\ Cardinality({ q \in BProcs : b_pc[q] # "idle" }) <= 1
    /\ \A q \in BProcs : b_pc[q] # "idle" <=> b_mutex = q
    /\ (b_mutex # 0 =>
          /\ b_waiters = b_snap
          /\ Len(b_snap) > 0
          /\ b_snap[Len(b_snap)] = b_nextW - 1
          /\ Range(b_sigLog) \subseteq Range(b_snap)
          /\ \A q \in BProcs :
                /\ ~ENABLED Broadcaster_NewWaiter(q)
                /\ ~ENABLED Broadcaster_Broadcast(q)
                /\ ~ENABLED Broadcaster_Close(q))

\* A Broadcast over two waiters is held in a handshake while the other
\* goroutine is idle and a NewWaiter could still create a waiter.
Wit_C19 ==
    /\ \E q \in BProcs : b_pc[q] = "waitdone"
    /\ \E q \in BProcs : b_pc[q] = "idle"
    /\ b_last.op = "Broadcast"
    /\ Len(b_snap) = 2
    /\ ~b_closed
    /\ b_nextW <= MaxWaiters

\* C20: a Broadcast or a Close that finds b.waiters empty raises no signal,
\* returns at once (it holds no lock and waits for no receipt) and leaves
\* b.waiters empty; the Broadcast leaves b.closed as it found it and the Close
\* leaves it set.  Stated of the states in which that call is still the most
\* recent one to have passed its Lock.
Thm_C20_EmptyWalkIsNoOp ==
    b_last.op \in {"Broadcast", "Close"} /\ b_last.empty =>
      /\ b_mutex = 0
      /\ \A q \in BProcs : b_pc[q] = "idle"
      /\ b_waiters = <<>>
      /\ b_snap = <<>>
      /\ b_sigLog = <<>>
      /\ b_hsLog = <<>>
      /\ b_closed = (IF b_last.op = "Broadcast" THEN b_last.closed ELSE TRUE)

\* A Broadcast has found the waiter set empty on a closed broadcaster, after
\* two waiters were created and walked.
Wit_C20 ==
    /\ b_last.op = "Broadcast"
    /\ b_last.empty
    /\ b_last.closed
    /\ b_walks >= 1
    /\ b_nextW = 3

\* The walk of goroutine q has signaled waiter w and waits for its receipt.
Reached(q, w) == b_pc[q] = "waitdone" /\ b_w[q] = w

\* The walk of q is held at w: q holds the mutex inside the handshake of w, no
\* waiter of b.waiters created before w is signaled, and no NewWaiter,
\* Broadcast or Close of any goroutine can pass its Lock.
HeldAt(q, w) ==
    /\ Reached(q, w)
    /\ b_mutex = q
    /\ \A k \in 1..Len(b_waiters) : b_waiters[k] < w => ~w_c[b_waiters[k]]
    /\ \A o \in BProcs :
          /\ ~ENABLED Broadcaster_NewWaiter(o)
          /\ ~ENABLED Broadcaster_Broadcast(o)
          /\ ~ENABLED Broadcaster_Close(o)

\* C29: if Done is never called on a waiter w, a Broadcast or Close whose walk
\* has reached w (signaled it and waits for its receipt) stays there for ever:
\* it never returns, it never signals a waiter created before w, and every
\* other NewWaiter, Broadcast or Close stays blocked at the mutex.
Thm_C29_MissingDoneBlocksForever ==
    \A q \in BProcs : \A w \in 1..MaxWaiters :
       [](Reached(q, w) /\ []~w_d[w] => []HeldAt(q, w))

\* A Close is held at the second of three waiters, whose Done was not called,
\* after the handshake of the third.
Wit_C29 ==
    /\ \E q \in BProcs : Reached(q, 2)
    /\ ~w_d[2]
    /\ ~w_c[1]
    /\ w_d[3]
    /\ b_last.op = "Close"
    /\ Len(b_waiters) = 3

\* C30: if the holder of every waiter calls Done at some time after the
\* waiter was signaled, every Broadcast (and Close) returns, and when its
\* walk has returned every waiter that was registered when it started has
\* been signaled and has acknowledged.
Thm_C30_BroadcastTerminates ==
    (\A w \in 1..MaxWaiters : [](w_c[w] => <>w_d[w])) =>
       /\ \A q \in BProcs : (b_pc[q] # "idle") ~> (b_pc[q] = "idle")
       /\ []((\A q \in BProcs : b_pc[q] = "idle") =>
               \A k \in 1..Len(b_snap) : w_c[b_snap[k]] /\ w_d[b_snap[k]])

\* A Broadcast over three waiters has returned, every one of them signaled
\* and acknowledged, on a broadcaster that was not closed.
Wit_C30 ==
    /\ b_last.op = "Broadcast"
    /\ \A q \in BProcs : b_pc[q] = "idle"
    /\ b_snap = <<1, 2, 3>>
    /\ b_hsLog = <<3, 2, 1>>
    /\ \A w \in 1..3 : w_c[w] /\ w_d[w]
    /\ ~b_closeCalled

\* ------------------------------------------------- closeable waiter: claims

\* C18: Close on a CloseableWaiter only raises the signal and returns: no
\* goroutine is held inside Close waiting for a Done that was not called.
Orig_C18_CloseDoesNotWait ==
    \A p \in CProcs : c_pc[p] = "close" => c_receipt

\* -------------------------------------------------------- WaitQueue: claims

\* C21: Release(n) with n > 0 on a queue of length m raises the signals of the
\* oldest min(n, m) waiters in insertion order, and of no other waiter,
\* removes them and returns min(n, m): while its loop runs the signals raised
\* are a prefix of the queue it found, at most min(n, m) long; once it has
\* returned they are exactly the first min(n, m), the queue is left with the
\* rest in order, and the count is the result.  A waiter still queued while no
\* release runs has not been signaled.
Thm_C21_ReleaseOldestFirst ==
    /\ \A p \in QProcs :
          q_pc[p] = "release" =>
            /\ q_queue = q_snap
            /\ Len(q_relLog) <= Min(q_n[p], Len(q_snap))
            /\ q_relLog = SubSeq(q_snap, 1, Len(q_relLog))
            /\ Len(q_relLog) = q_i[p] + (IF q_w[p] = Empty THEN 0 ELSE 1)
    /\ (q_mutex = 0 /\ q_last.op = "Release" /\ q_last.n > 0 =>
          LET k == Min(q_last.n, q_last.m) IN
          /\ q_last.m = Len(q_snap)
          /\ q_last.ret = k
          /\ q_relLog = SubSeq(q_snap, 1, k)
          /\ q_last.left = SubSeq(q_snap, k + 1, q_last.m)
          /\ \A w \in Range(q_relLog) : w_c[w])
    /\ \A w \in Range(q_queue) :
          w_c[w] => q_mutex # 0 /\ w \in Range(q_relLog)

\* Release(2) on a queue of three, whose oldest entry is receiptable, has
\* returned and left the newest waiter queued.
Wit_C21 ==
    /\ q_mutex = 0
    /\ q_last.op = "Release"
    /\ q_last.n = 2
    /\ q_last.m = 3
    /\ q_last.ret = 2
    /\ q_kind[q_snap[1]] = "receiptable"
    /\ q_queue = <<q_snap[3]>>

\* C22: ReleaseAll raises the signal of every queued waiter oldest first,
\* leaves the queue empty and returns the number of waiters it found queued.
Thm_C22_ReleaseAllEmptiesQueue ==
    /\ \A p \in QProcs :
          q_pc[p] = "releaseAll" =>
            /\ q_queue = q_snap
            /\ q_n[p] = Len(q_snap)
            /\ q_relLog = SubSeq(q_snap, 1, Len(q_relLog))
    /\ (q_mutex = 0 /\ q_last.op = "ReleaseAll" =>
          /\ q_last.ret = Len(q_snap)
          /\ q_last.left = <<>>
          /\ q_relLog = q_snap
          /\ Range(q_queue) \cap Range(q_snap) = {}
          /\ \A w \in Range(q_snap) : w_c[w])

\* ReleaseAll has returned 2 from a queue holding both kinds of waiter, after
\* the first of three waiters created had been released before.
Wit_C22 ==
    /\ q_mutex = 0
    /\ q_last.op = "ReleaseAll"
    /\ q_last.ret = 2
    /\ q_nextW = 4
    /\ \E k, j \in 1..Len(q_snap) : q_kind[q_snap[k]] # q_kind[q_snap[j]]
    /\ q_queue = <<>>

\* ----------------------------------------------------- empty waiter: claims

\* C23: the shared empty waiter is signaled in every reachable state: its Wait
\* can return and the channel its Channel() returns is closed, so that every
\* goroutine inside Wait or inside a receive from Channel() can proceed,
\* however many goroutines share the waiter and whatever Done calls were made.
Thm_C23_EmptyWaiterAlwaysSignaled ==
    /\ Waiter_Wait(Empty)
    /\ Waiter_Channel(Empty)
    /\ \A p \in EProcs :
          /\ (e_pc[p] = "Wait" => ENABLED E_Wait_Return(p))
          /\ (e_pc[p] = "Channel" => ENABLED E_Channel_Receive(p))

\* Done was called more than once, Wait and a receive from Channel() have
\* returned more than once, and two goroutines are inside Wait and inside a
\* receive at the same time.
Wit_C23 ==
    /\ e_dones = 2
    /\ e_waits = 2
    /\ e_recvs = 2
    /\ \E p, q \in EProcs : e_pc[p] = "Wait" /\ e_pc[q] = "Channel"

\* ---------------------------------------------------- Runner: more claims

\* C24: the runner passes one way from running to exited: Exited() is false as
\* long as no invocation of Exit has returned, true once any invocation of Exit
\* has returned (one that found no tracked task and returned nil included), and
\* once true it is true in every later state.
Thm_C24_ExitedOneWay ==
    /\ [](Exited <=> r_exits > 0)
    /\ [][Exited => Exited']_vars

\* The only invocations of Exit that have returned found no task tracked and
\* returned nil, and a Run made afterwards was refused.
Wit_C24 ==
    /\ Exited
    /\ r_trackLog = <<>>
    /\ r_exits = 2
    /\ r_last.op = "Run"
    /\ r_last.ret = ErrExited

\* C27: MustRun(t) returns the runner when its Run succeeded, and then t is
\* tracked; it panics when its Run failed, with ErrExited when the runner had
\* exited, and then t is not tracked.
Thm_C27_MustRunPanicsOnFailure ==
    r_last.op = "MustRun" =>
      /\ r_last.via \in {"return", "panic"}
      /\ (r_last.via = "return" <=> ~r_last.late /\ r_last.task \notin r_failed)
      /\ (r_last.via = "return" <=> r_last.task \in Range(r_trackLog))
      /\ (r_last.via = "return" => r_last.ret = NilErr)
      /\ (r_last.via = "panic" =>
            r_last.ret # NilErr /\ r_last.task \notin Range(r_tasks))
      /\ (r_last.late => r_last.via = "panic" /\ r_last.ret = ErrExited)

\* A task is tracked, the Execute of another one failed, and the last call, a
\* MustRun, was made on the exited runner.
Wit_C27 ==
    /\ r_last.op = "MustRun"
    /\ r_last.late
    /\ r_last.ret = ErrExited
    /\ r_trackLog # <<>>
    /\ r_failed # {}

\* ------------------------------------------------ SafeCall, MustCall: claims

\* C25, as stated: SafeCall(f) returns a PanicError, for which IsPanicError is
\* true, when f panics, and otherwise the very error f returned, nil included;
\* IsPanicError(nil) is false.
Orig_C25_SafeCallResult ==
    /\ ~IsPanicError(NilErr)
    /\ \A p \in KProcs :
          k_call[p].op = "SafeCall" =>
            LET f == k_call[p].f
                err == k_call[p].out.val
            IN  /\ ~k_call[p].out.panics
                /\ (f.panics => err.k = "panic" /\ IsPanicError(err))
                /\ (~f.panics => err = f.ret)

\* C26: MustCall(f) returns without a panic when f returns nil; when f returns
\* a PanicError it panics with the payload the PanicError holds and not with
\* the PanicError; when f returns another non-nil error it panics with that
\* error.
Thm_C26_MustCallRethrows ==
    \A p \in KProcs :
       k_call[p].op = "MustCall" /\ ~k_call[p].f.panics =>
         LET err == k_call[p].f.ret
             out == k_call[p].out
         IN  /\ (err = NilErr => ~out.panics)
             /\ (IsPanicError(err) =>
                   out.panics /\ out.val = Payload(err.id) /\ out.val # err)
             /\ (err # NilErr /\ ~IsPanicError(err) => out.panics /\ out.val = err)

\* One goroutine has given MustCall a function that returns what SafeCall made
\* of a panic, as TestMustCall does, and another one a function that returns an
\* error of another kind.
Wit_C26 ==
    /\ k_call[1] = KCall("MustCall", Returns(SafeCall(Panics(TestPayload))),
                         Outcome(TRUE, Payload(TestPayload)))
    /\ k_call[2].op = "MustCall"
    /\ k_call[2].f = Returns(PlainErr(1))
    /\ k_call[2].out.panics

\* ------------------------------------------------------------ Errors: claims

\* C28: the collection is the flat sequence of what was added, in the order of
\* the Add calls: a nil adds nothing, an *Errors adds its elements in their
\* order at the tail, any other error adds itself at the tail; no element is
\* nil or an *Errors; Len, First, Last and All return the length, the first
\* element, the last element (nil when there is none) and the sequence.
Thm_C28_ErrorsFlatOrdered ==
    /\ x_errs = Flat(x_added)
    /\ \A i \in 1..Len(x_errs) : x_errs[i].k \notin {"nil", "errors"}
    /\ (x_read # NoRead =>
          /\ x_read.len = Len(Flat(x_added))
          /\ x_read.all = Flat(x_added)
          /\ x_read.first = (IF x_read.len = 0 THEN NilErr ELSE Flat(x_added)[1])
          /\ x_read.last = (IF x_read.len = 0 THEN NilErr
                            ELSE Flat(x_added)[x_read.len]))

\* An error, a nil and a two-element *Errors were added in that order to a
\* collection, and the readers were called.
Wit_C28 ==
    /\ x_added = <<PlainErr(1), NilErr, ErrorsOf(<<PlainErr(3), PlainErr(4)>>)>>
    /\ x_read = XRead(3, PlainErr(1), PlainErr(4),
                      <<PlainErr(1), PlainErr(3), PlainErr(4)>>)

\* ------------------------------------------------------ Runner: panic safety

Thm_C32_ReleaseCountInRange ==
    q_last.op = "Release" =>
      /\ q_last.ret \in 0..(IF q_last.n > 0 THEN q_last.n ELSE 0)
      /\ q_last.ret <= q_last.m
      /\ (q_last.n <= 0 \/ q_last.m = 0 =>
            /\ q_last.ret = 0
            /\ q_last.left = SubSeq(q_queue, 1, Len(q_last.left))
            /\ Len(q_last.left) = q_last.m
            /\ (q_mutex = 0 => q_relLog = <<>> /\ q_snap = q_last.left)
            /\ \A w \in Range(q_last.left) : ~w_c[w] \/ q_mutex # 0)

\* Release was called with a negative argument on a queue of two waiters and
\* has returned 0, the two waiters still queued and not signaled.
Wit_C32 ==
    /\ q_last = QReturn("Release", 0 - 1, 2, 0, q_queue)
    /\ Len(q_queue) = 2
    /\ q_mutex = 0
    /\ \A w \in Range(q_queue) : ~w_c[w]

\* ---------------------------------------------- Broadcaster: closing claims

\* C33: once a Close has returned, every waiter NewWaiter has ever created on
\* the broadcaster is signaled, whatever NewWaiter calls ran beside the Close:
\* none is registered and left unsignaled, and what NewWaiter returns from
\* then on is the empty waiter, which is signaled too.
Thm_C33_CloseLeavesNoWaiterUnsignaled ==
    b_closed /\ b_mutex = 0 =>
      /\ \A w \in 1..(b_nextW - 1) : w_c[w] /\ Waiter_Channel(w)
      /\ b_waiters = <<>>
      /\ (b_last.op = "NewWaiter" => b_lastNew = Empty /\ Waiter_Channel(b_lastNew))

\* A Close has returned after an earlier Broadcast; three waiters were created
\* in all, and a NewWaiter called since has returned.
Wit_C33 ==
    /\ b_closed
    /\ b_mutex = 0
    /\ b_walks = 2
    /\ b_nextW = 4
    /\ b_last = Call("NewWaiter", TRUE, TRUE)

\* ---------------------------------------------------- Runner: concurrency

\* C34: Run and Exit exclude each other so that no task escapes the walk.  A
\* Run that took the lock on an exited runner returned ErrExited and did not
\* call Execute; a Run inside Execute has the lock, on a runner that has not
\* exited and with no walk in progress; and once an Exit has returned the
\* tracked sequence is empty and every task a Run ever tracked has been shut
\* down, exactly once.
Thm_C34_NoTaskEscapesExit ==
    /\ (r_last.op \in {"Run", "MustRun"} /\ r_last.late =>
          /\ r_last.ret = ErrExited
          /\ r_last.task \notin r_executed
          /\ r_last.task \notin Range(r_trackLog))
    /\ \A p \in RProcs :
          r_pc[p] = "run_exec" =>
            /\ r_mutex = p
            /\ ~Exited
            /\ \A o \in RProcs : ~Walking(o)
    /\ Range(r_tasks) \subseteq Range(r_trackLog)
    /\ Range(r_trackLog) \subseteq r_executed \ r_failed
    /\ ((\A p \in RProcs : ~Walking(p)) =>
          Range(r_trackLog) = Range(r_tasks) \cup Range(r_shutLog))
    /\ (r_exits > 0 =>
          /\ r_tasks = <<>>
          /\ \A t \in Range(r_trackLog) : Count(t, r_shutLog) = 1)

\* After two Runs whose tasks an Exit has shut down, a third Run was refused
\* while another goroutine is inside WaitBy.
Wit_C34 ==
    /\ r_last.op = "Run"
    /\ r_last.late
    /\ r_last.ret = ErrExited
    /\ Len(r_trackLog) = 2
    /\ Len(r_shutLog) = 2
    /\ \E p \in RProcs : r_pc[p] \in {"waitby_select", "waitby_exit"}

\* C35: the exit signal is closed only when the teardown is complete.  While
\* a walk has a task left Exited() is false; in every state in which the lock
\* is free and Exited() is true the tracked sequence is empty and the Shutdown
\* of every task that was tracked has been called and has returned; and a
\* WaitBy that returned because the exit signal fired returned in such a state.
Thm_C35_ExitedOnlyAfterTeardown ==
    LET TeardownComplete ==
          /\ r_tasks = <<>>
          /\ Range(r_trackLog) \subseteq Range(r_shutLog)
          /\ Len(r_shutOut) = Len(r_shutLog)
    IN  /\ \A p \in RProcs : Walking(p) /\ r_i[p] >= 1 => ~Exited
        /\ (r_mutex = 0 /\ Exited => TeardownComplete)
        /\ (r_last.op = "WaitBy" /\ r_last.via = "exit" =>
              Exited /\ r_exits > 0 /\ TeardownComplete)

\* A WaitBy has returned through the exit signal after an Exit shut down two
\* tasks, with the lock free.
Wit_C35 ==
    /\ r_last.op = "WaitBy"
    /\ r_last.via = "exit"
    /\ r_mutex = 0
    /\ Len(r_shutLog) = 2
    /\ Len(r_trackLog) = 2

\* ---------------------------------------------------------------------------
\* Runner: who receives the shutdown errors
\* ---------------------------------------------------------------------------

Thm_C37_EarlyReceiptIsSticky ==
    /\ [](w_early => w_d[Standalone])
    /\ [](\A p \in WProcs :
            w_early /\ w_pc[p] = "idle" => ENABLED W_CloseAndWaitDone_Call(p))
    /\ [](\A p \in WProcs :
            w_early /\ w_pc[p] = "CloseAndWaitDone" =>
              /\ w_c[Standalone]
              /\ ENABLED W_CloseAndWaitDone_Return(p))
    /\ [][/\ w_d[Standalone]
          /\ ~w_c[Standalone]
          /\ \E p \in WProcs : W_CloseAndWaitDone_Call(p) \/ W_Close(p)
          => /\ w_c'[Standalone]
             /\ w_d'[Standalone]
             /\ w_ronce'[Standalone]
             /\ w_dCloses' = w_dCloses]_vars

\* Done was called while c was open, and a CloseAndWaitDone, which can only
\* have been called after that, has returned: the signal is raised and d was
\* closed exactly once.
Wit_C37 ==
    /\ w_early
    /\ w_cawdDone
    /\ w_c[Standalone]
    /\ w_dCloses[Standalone] = 1

\* ---------------------------------------------------------------------------
\* duplex waiter: several holders
\* ---------------------------------------------------------------------------

\* C38: whichever goroutine calls Done() on the shared waiter, and whatever the
\* other holders have done, d is closed when the call returns and every pending
\* WaitDone (that of a CloseAndWaitDone included) can complete; once Done has
\* been called at all, a pending CloseAndWaitDone can return.
Thm_C38_FirstDoneReleases ==
    /\ [][\A p \in WProcs : W_Done(p) =>
            /\ DuplexWaiter_WaitDone(Standalone)'
            /\ w_dCloses'[Standalone] = 1
            /\ \A q \in WProcs : w_pc'[q] = w_pc[q]]_vars
    /\ [](\A q \in WProcs :
            w_doneBy # {} /\ w_pc[q] = "CloseAndWaitDone" =>
              ENABLED W_CloseAndWaitDone_Return(q))
    /\ [](\A q \in WProcs :
            w_doneBy # {} /\ w_pc[q] = "WaitDone" =>
              ENABLED W_WaitDone_Return(q))

\* A CloseAndWaitDone has returned while two goroutines hold the waiter: one
\* has received the signal, and Done was only ever called after such a
\* receive; the other is still in its Wait, so that it has never called Done.
Wit_C38 ==
    /\ w_cawdDone
    /\ ~w_blind
    /\ Cardinality({ p \in WProcs : w_seen[p] }) = 1
    /\ \E p \in WProcs : w_pc[p] = "Wait" /\ ~w_seen[p]

\* ---------------------------------------------------------------------------
\* WaitQueue: releasing receiptable waiters
\* ---------------------------------------------------------------------------

\* Goroutine p is inside the loop of a Release or of a ReleaseAll.
Releasing(p) == q_pc[p] \in {"release", "releaseAll"}

\* C39: a release walks wq.queue from its head, one entry at a time.  The
\* signals it has raised are a prefix of the queue, at most one entry ahead of
\* the loop index; every receiptable entry it has passed has had its Done; and
\* while the Done of the receiptable entry it is at is missing, the release
\* cannot signal the next entry, cannot pass the entry and cannot return.  It
\* holds wq.mutex throughout, so that no NewWaiter, NewReceiptableWaiter, Len,
\* Release or ReleaseAll of any goroutine can proceed; and every receiptable
\* waiter a returned release has signaled has had its Done.
Thm_C39_ReleaseHandshakesInOrder ==
    /\ \A p \in QProcs : Releasing(p) =>
          /\ q_mutex = p
          /\ q_queue = q_snap
          /\ q_relLog = SubSeq(q_queue, 1,
                               IF q_w[p] = Empty THEN q_i[p] ELSE q_i[p] + 1)
          /\ \A k \in 1..Len(q_queue) : k > Len(q_relLog) => ~w_c[q_queue[k]]
          /\ \A k \in 1..q_i[p] :
                q_kind[q_queue[k]] = "receiptable" => w_d[q_queue[k]]
          /\ \A q \in QProcs :
                /\ ~ENABLED WaitQueue_NewWaiter(q)
                /\ ~ENABLED WaitQueue_NewReceiptableWaiter(q)
                /\ ~ENABLED WaitQueue_Len(q)
                /\ ~ENABLED WaitQueue_Release(q)
                /\ ~ENABLED WaitQueue_ReleaseAll(q)
          /\ q_w[p] # Empty =>
                /\ q_w[p] = q_queue[q_i[p] + 1]
                /\ q_kind[q_w[p]] = "receiptable"
                /\ w_c[q_w[p]]
                /\ ~w_d[q_w[p]] =>
                      /\ ~ENABLED WaitQueue_Close(p)
                      /\ ~ENABLED WaitQueue_WaitDone(p)
                      /\ ~ENABLED WaitQueue_Release_Return(p)
                      /\ ~ENABLED WaitQueue_ReleaseAll_Return(p)
                      /\ ENABLED QHolder_Done(q_w[p])
    /\ q_mutex = 0 =>
          \A w \in 1..(q_nextW - 1) :
             w_c[w] /\ q_kind[w] = "receiptable" => w_d[w]

\* A release of two receiptable waiters has completed the handshake of the
\* first, has signaled the second and is waiting for its Done, while a third
\* waiter behind them is not signaled.
Wit_C39 ==
    \E p \in QProcs :
       /\ Releasing(p)
       /\ q_i[p] = 1
       /\ q_kind[q_queue[1]] = "receiptable"
       /\ q_w[p] # Empty
       /\ ~w_d[q_w[p]]
       /\ Len(q_queue) = 3
       /\ ~w_c[q_queue[3]]

\* ---------------------------------------------------------------------------
\* WaitQueue: what a release leaves behind
\* ---------------------------------------------------------------------------

\* The waiters the queue has created, and those of them whose signal is raised.
Created == 1..(q_nextW - 1)
Signaled == { w \in Created : w_c[w] }

\* C40: waiter ids are creation order.  At every moment the signaled waiters
\* are the oldest ones created (no waiter is signaled before an older one),
\* and wq.queue holds, in creation order, exactly the waiters that no returned
\* release has covered.  While no release runs, the queue is the unsignaled
\* waiters in creation order, and its length is the number created minus the
\* number released, whether the latter is counted from the signals or from the
\* results of the releases; Len() returns that number.  A Release that has
\* returned left the waiters beyond the first min(n, m) in the queue, in
\* order and unsignaled.
Thm_C40_ReleaseLeavesTheRestQueued ==
    /\ [](/\ \A w \in Created : \A v \in Created : w < v /\ w_c[v] => w_c[w]
          /\ q_queue = [k \in 1..Len(q_queue) |->
                          q_nextW - 1 - Len(q_queue) + k]
          /\ q_released \in 0..MaxWaiters
          /\ Len(q_queue) = Cardinality(Created) - q_released
          /\ q_mutex = 0 =>
                /\ Range(q_queue) = Created \ Signaled
                /\ q_released = Cardinality(Signaled))
    /\ [](q_last.op = "Release" =>
            LET k == IF q_last.n <= 0 THEN 0 ELSE Min(q_last.n, q_last.m) IN
            /\ q_last.ret = k
            /\ Len(q_last.left) = q_last.m - k
            /\ q_last.left = SubSeq(q_queue, 1, Len(q_last.left))
            /\ \A j \in 1..Len(q_last.left) :
                  \/ ~w_c[q_last.left[j]]
                  \/ \E p \in QProcs : Releasing(p) /\ j <= Len(q_relLog))
    /\ [][\A p \in QProcs : WaitQueue_Len(p) =>
            /\ q_last'.op = "Len"
            /\ q_last'.ret = Cardinality(Created) - q_released
            /\ q_last'.ret = Cardinality(Created) - Cardinality(Signaled)]_vars
    /\ [][\A p \in QProcs : WaitQueue_Release_Return(p) =>
            /\ q_queue' = SubSeq(q_queue, q_last'.ret + 1, Len(q_queue))
            /\ \A w \in Range(q_queue') : ~w_c'[w]
            /\ \A w \in Range(q_queue) \ Range(q_queue') : w_c'[w]
            /\ q_released' = q_released + q_last'.ret]_vars

\* A second Release(1) has returned on a queue that held three waiters before
\* the first: the two oldest are signaled, the newest is still queued and is
\* not signaled.
Wit_C40 ==
    /\ q_mutex = 0
    /\ q_last.op = "Release"
    /\ q_last.n = 1
    /\ q_last.m = 2
    /\ q_released = 2
    /\ q_queue = <<3>>
    /\ Signaled = {1, 2}

====
